---- MODULE Spec2Model ----
(***************************************************************************)
(* A model of the routing, health and storage core of freegin-ai:          *)
(*   src/src/providers/router.rs  ProviderRouter (candidate selection,     *)
(*                                 fallback walk, bookkeeping)             *)
(*   src/src/health.rs            HealthTracker (classification, backoff,  *)
(*                                 availability gate)                      *)
(*   src/src/usage.rs             UsageLogger                              *)
(*   src/src/catalog.rs           CatalogStore (roster, suggestions,       *)
(*                                 adoption, seeding)                      *)
(*   src/src/credentials.rs       CredentialStore                          *)
(*                                                                         *)
(* Conventions.                                                            *)
(*  - Option<T> is a set with at most one element: None = {}, Some(x)={x}. *)
(*  - Wall-clock time (Utc::now) is the variable now, in seconds.          *)
(*  - A free-form string that the code only searches for substrings is a   *)
(*    sequence of tokens; to_lowercase folds each token and contains(pat)  *)
(*    looks for the token pat.                                             *)
(*  - A database statement is atomic; each one may fail (the pool or the   *)
(*    query fails), which the actions draw with \E dbok \in BOOLEAN.       *)
(***************************************************************************)
EXTENDS Integers, Sequences, FiniteSets, TLC

VARIABLES
    providers,        \* ProviderRouter.providers: the registered adapters (keys of the map)
    fallback_order,   \* ProviderRouter.fallback_order
    usage_logger,     \* ProviderRouter.usage_logger.is_some(); health_tracker exists iff it does
    catalog,          \* ProviderRouter.catalog.is_some()
    provider_models,  \* table provider_models (the roster)
    provider_health,  \* table provider_health: provider -> Option<row>
    provider_usage,   \* table provider_usage: append-only sequence of rows
    now,              \* Utc::now(), seconds
    ticks,            \* number of clock advances taken
    request,          \* the AIRequest of the generate call
    inflight,         \* generate calls running concurrently: the position of each
    pc,               \* position of the generate call
    candidates,       \* select_candidates(request), the list the walk iterates
    idx,              \* index of the candidate the walk is at
    routed_model,     \* routed_request.model of the current attempt
    start,            \* Instant::now() taken before the adapter call
    invoked,          \* adapter invocations of this generate call, in order
    skipped,          \* debug! log: candidates the health gate skipped
    warnings,         \* warn! log of this call
    result,           \* Option<Result<AIResponse, AppError>>: what generate returned
    reply,            \* Option: the last answer of a method called directly
    ops,              \* number of writing store methods called directly
    provider_credentials,        \* table provider_credentials: set of rows
    provider_model_suggestions,  \* table provider_model_suggestions: set of rows
    tokens_set                   \* history: provider -> the tokens of its set_token calls
                                 \* that succeeded since its last remove_token, in order

vars == <<providers, fallback_order, usage_logger, catalog, provider_models,
          provider_health, provider_usage, now, ticks, request, inflight, pc, candidates,
          idx, routed_model, start, invoked, skipped, warnings, result, reply, ops,
          provider_credentials, provider_model_suggestions, tokens_set>>

routerVars == <<providers, fallback_order, usage_logger, catalog>>
storeVars  == <<provider_credentials, provider_model_suggestions, tokens_set>>
walkVars   == <<request, inflight, pc, candidates, idx, routed_model, start, invoked,
                skipped, warnings, result>>

----------------------------------------------------------------------------
(* Bounds of the model *)

MaxTicks     == 2    \* clock advances per behaviour of the health tracker
MaxOps       == 2    \* direct record_success / record_failure calls per behaviour
MaxWalkTicks == 1    \* clock advances during one generate call
MaxHistory   == 1    \* record_* calls that produced the persisted health table
MaxOrder     == 2    \* length of a fallback_order drawn for candidate selection
MaxMsgLen    == 2    \* words of an error message given to classify_error
MaxFailures  == 8    \* largest argument given to calculate_backoff
MaxRequests  == 2    \* generate calls made on one router

----------------------------------------------------------------------------
(* Option and sequence helpers *)

None == {}
Some(x) == {x}
IsSome(o) == o # {}
Unwrap(o) == CHOOSE x \in o : TRUE

Range(s) == {s[i] : i \in 1..Len(s)}

Min(a, b) == IF a <= b THEN a ELSE b

RECURSIVE Pow2(_)
Pow2(n) == IF n <= 0 THEN 1 ELSE 2 * Pow2(n - 1)

\* str::to_lowercase on the tokens and aliases the model uses
Lower(tok) ==
    CASE tok = "GPT"    -> "gpt"
      [] tok = "Gemini" -> "gemini"
      [] tok = "Llama"  -> "llama"
      [] tok = "HF"     -> "hf"
      [] tok = "Google" -> "google"
      [] tok = "Rate Limit"   -> "rate limit"
      [] tok = "Billing"      -> "billing"
      [] tok = "Unauthorized" -> "unauthorized"
      [] tok = "Gateway"      -> "gateway"
      [] tok = "Chat"         -> "chat"
      [] tok = "Code"         -> "code"
      [] OTHER          -> tok

ToLowercase(s) == [i \in 1..Len(s) |-> Lower(s[i])]

Contains(s, pat) == \E i \in 1..Len(s) : s[i] = pat

\* str::trim on the alias texts the model uses
Trim(s) ==
    CASE s = " hf "    -> "hf"
      [] s = " google" -> "google"
      [] s = " "       -> ""
      [] s = " key "   -> "key"
      [] OTHER         -> s

----------------------------------------------------------------------------
(* Provider: src/src/providers/mod.rs *)

Provider == {"openai", "google", "huggingface", "anthropic", "cohere", "groq",
             "deepseek", "together", "cloudflare", "cerebras", "mistral",
             "clarifai", "github", "openrouter"}

from_alias(value) ==
    LET v == Lower(value) IN
    CASE v \in {"openai", "gpt"}                                -> Some("openai")
      [] v \in {"google", "gemini"}                             -> Some("google")
      [] v \in {"huggingface", "hugging_face", "hf"}            -> Some("huggingface")
      [] v \in {"anthropic", "claude"}                          -> Some("anthropic")
      [] v = "cohere"                                           -> Some("cohere")
      [] v = "groq"                                             -> Some("groq")
      [] v = "deepseek"                                         -> Some("deepseek")
      [] v \in {"together", "togetherai", "together_ai"}        -> Some("together")
      [] v \in {"cloudflare", "cf", "workers", "workers_ai"}    -> Some("cloudflare")
      [] v = "cerebras"                                         -> Some("cerebras")
      [] v \in {"mistral", "mistralai", "mistral_ai"}           -> Some("mistral")
      [] v = "clarifai"                                         -> Some("clarifai")
      [] v \in {"github", "github_models", "githubmodels"}      -> Some("github")
      [] v \in {"openrouter", "open_router"}                    -> Some("openrouter")
      [] OTHER                                                  -> None

----------------------------------------------------------------------------
(* HealthTracker: src/src/health.rs *)

\* An error message is the sequence of its words; the classifier looks for
\* its patterns in the lower-cased message.
RateLimitPatterns   == {"rate limit", "too many requests", "429"}
OutOfCreditPatterns == {"insufficient credits", "quota exceeded", "out of credits",
                        "billing", "payment required", "402"}
AuthFailurePatterns == {"unauthorized", "forbidden", "invalid api key",
                        "invalid token", "authentication failed", "401", "403"}
ServiceUnavailablePatterns == {"service unavailable", "502", "503", "504", "gateway"}

ContainsAny(msg, pats) == \E p \in pats : Contains(msg, p)

\* classify_error looking for the auth patterns before the rate-limit patterns
classify_error_auth_first(error_msg) ==
    LET error_lower == ToLowercase(error_msg) IN
    IF ContainsAny(error_lower, AuthFailurePatterns) THEN "AuthFailure"
    ELSE IF ContainsAny(error_lower, RateLimitPatterns) THEN "RateLimit"
    ELSE IF ContainsAny(error_lower, OutOfCreditPatterns) THEN "OutOfCredits"
    ELSE IF ContainsAny(error_lower, ServiceUnavailablePatterns) THEN "ServiceUnavailable"
    ELSE "Transient"

classify_error(error_msg) ==
    LET error_lower == ToLowercase(error_msg) IN
    IF ContainsAny(error_lower, RateLimitPatterns) THEN "RateLimit"
    ELSE IF ContainsAny(error_lower, OutOfCreditPatterns) THEN "OutOfCredits"
    ELSE IF ContainsAny(error_lower, AuthFailurePatterns) THEN "AuthFailure"
    ELSE IF ContainsAny(error_lower, ServiceUnavailablePatterns) THEN "ServiceUnavailable"
    ELSE "Transient"

\* calculate_backoff without the cap of 60 minutes
calculate_backoff_uncapped(consecutive_failures) ==
    Pow2(Min(consecutive_failures, 6))

\* 2_i64.pow(consecutive_failures.min(6) as u32).min(60), in minutes
calculate_backoff(consecutive_failures) ==
    Min(Pow2(Min(consecutive_failures, 6)), 60)

HealthStatus_from_str(s) ==
    CASE s = "degraded"    -> "Degraded"
      [] s = "unavailable" -> "Unavailable"
      [] OTHER             -> "Available"

HealthStatus_as_str(st) ==
    CASE st = "Available"   -> "available"
      [] st = "Degraded"    -> "degraded"
      [] st = "Unavailable" -> "unavailable"

\* FailurePolicy with the credit and auth backoff of one hour instead of 24
FailurePolicy_short_credit(error_type, t) ==
    CASE error_type = "RateLimit" ->
            [status |-> "Degraded", retry_after |-> Some(t + 60 * calculate_backoff(1))]
      [] error_type \in {"OutOfCredits", "AuthFailure"} ->
            [status |-> "Unavailable", retry_after |-> Some(t + 3600)]
      [] error_type = "ServiceUnavailable" ->
            [status |-> "Degraded", retry_after |-> Some(t + 5 * 60)]
      [] error_type = "Transient" ->
            [status |-> "Degraded", retry_after |-> Some(t + 30)]

\* FailurePolicy taking a provider out of service on a service error
FailurePolicy_service_unavailable(error_type, t) ==
    CASE error_type = "RateLimit" ->
            [status |-> "Degraded", retry_after |-> Some(t + 60 * calculate_backoff(1))]
      [] error_type \in {"OutOfCredits", "AuthFailure"} ->
            [status |-> "Unavailable", retry_after |-> Some(t + 24 * 3600)]
      [] error_type = "ServiceUnavailable" ->
            [status |-> "Unavailable", retry_after |-> Some(t + 5 * 60)]
      [] error_type = "Transient" ->
            [status |-> "Degraded", retry_after |-> Some(t + 30)]

\* the (status, retry_after) pair record_failure computes before its upsert
FailurePolicy(error_type, t) ==
    CASE error_type = "RateLimit" ->
            [status |-> "Degraded", retry_after |-> Some(t + 60 * calculate_backoff(1))]
      [] error_type \in {"OutOfCredits", "AuthFailure"} ->
            [status |-> "Unavailable", retry_after |-> Some(t + 24 * 3600)]
      [] error_type = "ServiceUnavailable" ->
            [status |-> "Degraded", retry_after |-> Some(t + 5 * 60)]
      [] error_type = "Transient" ->
            [status |-> "Degraded", retry_after |-> Some(t + 30)]

\* record_success leaving consecutive_failures of an existing record as it is
record_success_keeps_failures(table, provider, t) ==
    LET old == table[provider]
        row == IF IsSome(old)
               THEN [Unwrap(old) EXCEPT !.status = "available",
                                        !.last_success_at = Some(t),
                                        !.updated_at = t]
               ELSE [status |-> "available", last_error |-> None,
                     last_error_at |-> None, retry_after |-> None,
                     consecutive_failures |-> 0, last_success_at |-> Some(t),
                     updated_at |-> t]
    IN [table EXCEPT ![provider] = Some(row)]

\* record_success clearing the error fields of an existing record
record_success_clears_error(table, provider, t) ==
    LET old == table[provider]
        row == IF IsSome(old)
               THEN [Unwrap(old) EXCEPT !.status = "available",
                                        !.consecutive_failures = 0,
                                        !.last_error = None,
                                        !.last_error_at = None,
                                        !.retry_after = None,
                                        !.last_success_at = Some(t),
                                        !.updated_at = t]
               ELSE [status |-> "available", last_error |-> None,
                     last_error_at |-> None, retry_after |-> None,
                     consecutive_failures |-> 0, last_success_at |-> Some(t),
                     updated_at |-> t]
    IN [table EXCEPT ![provider] = Some(row)]

\* the upsert of record_success applied to the table
record_success(table, provider, t) ==
    LET old == table[provider]
        row == IF IsSome(old)
               THEN [Unwrap(old) EXCEPT !.status = "available",
                                        !.consecutive_failures = 0,
                                        !.last_success_at = Some(t),
                                        !.updated_at = t]
               ELSE [status |-> "available", last_error |-> None,
                     last_error_at |-> None, retry_after |-> None,
                     consecutive_failures |-> 0, last_success_at |-> Some(t),
                     updated_at |-> t]
    IN [table EXCEPT ![provider] = Some(row)]

\* record_failure keeping the later of the stored and the new retry_after
record_failure_keeps_later_retry(table, provider, error_message, t) ==
    LET pol == FailurePolicy(classify_error(error_message), t)
        old == table[provider]
        row == IF IsSome(old)
               THEN [Unwrap(old) EXCEPT
                        !.status = HealthStatus_as_str(pol.status),
                        !.last_error = Some(error_message),
                        !.last_error_at = Some(t),
                        !.retry_after =
                            IF IsSome(@) /\ Unwrap(@) > Unwrap(pol.retry_after)
                            THEN @ ELSE pol.retry_after,
                        !.consecutive_failures = Unwrap(old).consecutive_failures + 1,
                        !.updated_at = t]
               ELSE [status |-> HealthStatus_as_str(pol.status),
                     last_error |-> Some(error_message),
                     last_error_at |-> Some(t), retry_after |-> pol.retry_after,
                     consecutive_failures |-> 1, last_success_at |-> None,
                     updated_at |-> t]
    IN [table EXCEPT ![provider] = Some(row)]

\* record_failure writing consecutive_failures = 1 over an existing record
record_failure_counts_from_one(table, provider, error_message, t) ==
    LET pol == FailurePolicy(classify_error(error_message), t)
        row == [status |-> HealthStatus_as_str(pol.status),
                last_error |-> Some(error_message),
                last_error_at |-> Some(t), retry_after |-> pol.retry_after,
                consecutive_failures |-> 1,
                last_success_at |-> IF IsSome(table[provider])
                                    THEN Unwrap(table[provider]).last_success_at
                                    ELSE None,
                updated_at |-> t]
    IN [table EXCEPT ![provider] = Some(row)]

\* the upsert of record_failure applied to the table
record_failure(table, provider, error_message, t) ==
    LET pol == FailurePolicy(classify_error(error_message), t)
        old == table[provider]
        row == IF IsSome(old)
               THEN [Unwrap(old) EXCEPT
                        !.status = HealthStatus_as_str(pol.status),
                        !.last_error = Some(error_message),
                        !.last_error_at = Some(t),
                        !.retry_after = pol.retry_after,
                        !.consecutive_failures = Unwrap(old).consecutive_failures + 1,
                        !.updated_at = t]
               ELSE [status |-> HealthStatus_as_str(pol.status),
                     last_error |-> Some(error_message),
                     last_error_at |-> Some(t), retry_after |-> pol.retry_after,
                     consecutive_failures |-> 1, last_success_at |-> None,
                     updated_at |-> t]
    IN [table EXCEPT ![provider] = Some(row)]

\* get_health: the stored row parsed, or the synthetic available record
get_health(table, provider) ==
    LET row == table[provider] IN
    IF IsSome(row)
    THEN [status |-> HealthStatus_from_str(Unwrap(row).status),
          last_error |-> Unwrap(row).last_error,
          last_error_at |-> Unwrap(row).last_error_at,
          retry_after |-> Unwrap(row).retry_after,
          consecutive_failures |-> Unwrap(row).consecutive_failures,
          last_success_at |-> Unwrap(row).last_success_at]
    ELSE [status |-> "Available", last_error |-> None, last_error_at |-> None,
          retry_after |-> None, consecutive_failures |-> 0,
          last_success_at |-> None]

\* is_available comparing with > instead of >=
is_available_strict(table, provider, t) ==
    LET health == get_health(table, provider) IN
    IF health.status = "Available" THEN TRUE
    ELSE IF IsSome(health.retry_after) THEN t > Unwrap(health.retry_after)
    ELSE health.status = "Degraded"

\* is_available taking every record without retry_after as available
is_available_no_retry_true(table, provider, t) ==
    LET health == get_health(table, provider) IN
    IF health.status = "Available" THEN TRUE
    ELSE IF IsSome(health.retry_after) THEN t >= Unwrap(health.retry_after)
    ELSE TRUE

\* is_available, given that its query succeeded
is_available(table, provider, t) ==
    LET health == get_health(table, provider) IN
    IF health.status = "Available" THEN TRUE
    ELSE IF IsSome(health.retry_after) THEN t >= Unwrap(health.retry_after)
    ELSE health.status = "Degraded"

----------------------------------------------------------------------------
(* CatalogStore::active_models: src/src/catalog.rs *)

\* rows of a roster with status = 'active' AND provider = ? [AND workload = ?]
active_models_in(table, provider, workload) ==
    {r \in table :
        /\ r.status = "active"
        /\ r.provider = provider
        /\ (IsSome(workload) => r.workload = Unwrap(workload))}

active_models(provider, workload) ==
    active_models_in(provider_models, provider, workload)

\* ORDER BY priority ASC, updated_at DESC
OrderedBefore(a, b) ==
    \/ a.priority < b.priority
    \/ (a.priority = b.priority /\ a.updated_at > b.updated_at)

\* FirstActive taking any active row, whatever the ORDER BY
FirstActive_any_row(provider, workload) == active_models(provider, workload)

\* the rows the query may return first (rows that tie come in either order)
FirstActive(provider, workload) ==
    {r \in active_models(provider, workload) :
        \A o \in active_models(provider, workload) : ~OrderedBefore(o, r)}

----------------------------------------------------------------------------
(* ProviderRouter: src/src/providers/router.rs *)

\* seen.insert(provider) followed by ordered.push(provider)
\* a variant without the `seen` set: every named provider is appended
PushUnique_appends(ordered, provider) == Append(ordered, provider)

PushUnique(ordered, provider) ==
    IF provider \in Range(ordered) THEN ordered ELSE Append(ordered, provider)

RECURSIVE ExtendUnique(_, _)
ExtendUnique(ordered, more) ==
    IF more = <<>> THEN ordered
    ELSE ExtendUnique(PushUnique(ordered, Head(more)), Tail(more))

PushOption(ordered, opt) ==
    IF IsSome(opt) THEN PushUnique(ordered, Unwrap(opt)) ELSE ordered

provider_from_hints(req) ==
    IF IsSome(req.hints.provider)
    THEN {p \in from_alias(Unwrap(req.hints.provider)) : p \in providers}
    ELSE None

\* tag.strip_prefix("provider:"): a tag is <<prefix, rest>>
StripProviderPrefix(tag) ==
    IF Len(tag) >= 1 /\ tag[1] = "provider:"
    THEN Some(IF Len(tag) >= 2 THEN tag[2] ELSE "")
    ELSE None

TagProvider(tag) ==
    LET alias == StripProviderPrefix(tag) IN
    IF IsSome(alias)
    THEN {p \in from_alias(Trim(Unwrap(alias))) : p \in providers}
    ELSE None

RECURSIVE FirstTagProvider(_)
FirstTagProvider(tags) ==
    IF tags = <<>> THEN None
    ELSE IF IsSome(TagProvider(Head(tags))) THEN TagProvider(Head(tags))
    ELSE FirstTagProvider(Tail(tags))

provider_from_tags(req) == FirstTagProvider(req.tags)

\* provider_from_model taking "llama" alone as a Groq model
provider_from_model_llama_alone(req) ==
    LET model == ToLowercase(req.model) IN
    IF Contains(model, "gemini") /\ "google" \in providers THEN Some("google")
    ELSE IF Contains(model, "gpt") /\ "openai" \in providers THEN Some("openai")
    ELSE IF Contains(model, "claude") /\ "anthropic" \in providers THEN Some("anthropic")
    ELSE IF Contains(model, "cohere") /\ "cohere" \in providers THEN Some("cohere")
    ELSE IF Contains(model, "deepseek") /\ "deepseek" \in providers THEN Some("deepseek")
    ELSE IF Contains(model, "llama") /\ "groq" \in providers THEN Some("groq")
    ELSE None

provider_from_model(req) ==
    LET model == ToLowercase(req.model) IN
    IF Contains(model, "gemini") /\ "google" \in providers THEN Some("google")
    ELSE IF Contains(model, "gpt") /\ "openai" \in providers THEN Some("openai")
    ELSE IF Contains(model, "claude") /\ "anthropic" \in providers THEN Some("anthropic")
    ELSE IF Contains(model, "cohere") /\ "cohere" \in providers THEN Some("cohere")
    ELSE IF Contains(model, "deepseek") /\ "deepseek" \in providers THEN Some("deepseek")
    ELSE IF Contains(model, "llama") /\ Contains(model, "groq") /\ "groq" \in providers
         THEN Some("groq")
    ELSE None

hint_preferred_providers(req) ==
    LET first == IF /\ (req.hints.quality = Some("Premium")
                        \/ req.hints.complexity = Some("High"))
                    /\ "huggingface" \in providers
                 THEN <<"huggingface">> ELSE <<>>
        second == IF req.hints.speed = Some("Fast") /\ "google" \in providers
                  THEN <<"google">> ELSE <<>>
    IN first \o second

\* select_candidates consulting the hinted provider after the fallback order
select_candidates_hint_last(req) ==
    LET s1 == PushOption(<<>>, provider_from_tags(req))
        s2 == PushOption(s1, provider_from_model(req))
        s3 == ExtendUnique(s2, hint_preferred_providers(req))
        s4 == ExtendUnique(s3, fallback_order)
    IN PushOption(s4, provider_from_hints(req))

\* select_candidates consulting the model name before the tags
select_candidates_model_first(req) ==
    LET s1 == PushOption(<<>>, provider_from_hints(req))
        s2 == PushOption(s1, provider_from_model(req))
        s3 == PushOption(s2, provider_from_tags(req))
        s4 == ExtendUnique(s3, hint_preferred_providers(req))
    IN ExtendUnique(s4, fallback_order)

select_candidates(req) ==
    LET s1 == PushOption(<<>>, provider_from_hints(req))
        s2 == PushOption(s1, provider_from_tags(req))
        s3 == PushOption(s2, provider_from_model(req))
        s4 == ExtendUnique(s3, hint_preferred_providers(req))
    IN ExtendUnique(s4, fallback_order)

----------------------------------------------------------------------------
(* Error messages.  AppError's Display puts a fixed prefix before the text. *)

MsgRateLimit == <<"429", "too many requests">>
MsgPayment   == <<"payment required">>
MsgService   == <<"503", "service unavailable">>
MsgTransient == <<"connection reset by peer">>
MsgAuth      == <<"401", "Unauthorized">>

ErrorMessages == {MsgRateLimit, MsgPayment, MsgAuth, MsgService, MsgTransient}

\* err.to_string() for the #[error("...: {0}")] variants of AppError
AppError_to_string(err) ==
    CASE err.kind = "ConfigError"  -> <<"Configuration error: ">> \o err.msg
      [] err.kind = "ApiError"     -> <<"API provider error: ">> \o err.msg
      [] err.kind = "NetworkError" -> <<"Network error: ">> \o err.msg

----------------------------------------------------------------------------
(* The clock and the HealthTracker methods called directly *)

ClockSteps == {30, 120, 24 * 3600}

HealthProviders == {"groq", "google"}

EmptyHealth == [p \in Provider |-> None]

NoHints == [provider |-> None, quality |-> None, complexity |-> None,
            speed |-> None, workload |-> None]

NoRequest == [model |-> <<>>, tags |-> <<>>, hints |-> NoHints]

Tick ==
    /\ ticks < MaxTicks
    /\ \E d \in ClockSteps : now' = now + d
    /\ ticks' = ticks + 1
    /\ UNCHANGED <<routerVars, storeVars, walkVars, provider_models, provider_health,
                   provider_usage, reply, ops>>

RecordSuccessOp(p) ==
    /\ ops < MaxOps
    /\ ops' = ops + 1
    /\ \E dbok \in BOOLEAN :
         /\ provider_health' = IF dbok THEN record_success(provider_health, p, now)
                               ELSE provider_health
         /\ reply' = Some([op |-> "record_success", provider |-> p, at |-> now,
                           value |-> IF dbok THEN Some(TRUE) ELSE None])
    /\ UNCHANGED <<routerVars, storeVars, walkVars, provider_models, provider_usage, now, ticks>>

RecordFailureOp(p, msg) ==
    /\ ops < MaxOps
    /\ ops' = ops + 1
    /\ \E dbok \in BOOLEAN :
         /\ provider_health' = IF dbok THEN record_failure(provider_health, p, msg, now)
                               ELSE provider_health
         /\ reply' = Some([op |-> "record_failure", provider |-> p, at |-> now,
                           value |-> IF dbok THEN Some(TRUE) ELSE None])
    /\ UNCHANGED <<routerVars, storeVars, walkVars, provider_models, provider_usage, now, ticks>>

IsAvailableOp(p) ==
    /\ \E dbok \in BOOLEAN :
         reply' = Some([op |-> "is_available", provider |-> p, at |-> now,
                        value |-> IF dbok THEN Some(is_available(provider_health, p, now))
                                  ELSE None])
    /\ UNCHANGED <<routerVars, storeVars, walkVars, provider_models, provider_health,
                   provider_usage, now, ticks, ops>>

----------------------------------------------------------------------------
(* SpecHealth: the health tracker on a fresh database *)

IdleWalk ==
    /\ providers = {"groq", "google"}
    /\ fallback_order = <<"groq", "google">>
    /\ usage_logger = TRUE
    /\ catalog = FALSE
    /\ provider_models = {}
    /\ provider_usage = <<>>
    /\ provider_credentials = {}
    /\ provider_model_suggestions = {}
    /\ tokens_set = [p \in Provider |-> <<>>]
    /\ request = NoRequest
    /\ inflight = <<>>
    /\ pc = "idle"
    /\ candidates = <<>>
    /\ idx = 0
    /\ routed_model = <<>>
    /\ start = 0
    /\ invoked = <<>>
    /\ skipped = <<>>
    /\ warnings = <<>>
    /\ result = None

InitHealth ==
    /\ IdleWalk
    /\ provider_health = EmptyHealth
    /\ now = 0
    /\ ticks = 0
    /\ reply = None
    /\ ops = 0

NextHealth ==
    \/ Tick
    \/ \E p \in HealthProviders : RecordSuccessOp(p)
    \/ \E p \in HealthProviders, msg \in ErrorMessages : RecordFailureOp(p, msg)
    \/ \E p \in HealthProviders : IsAvailableOp(p)

SpecHealth == InitHealth /\ [][NextHealth]_vars

----------------------------------------------------------------------------
(* ProviderRouter::generate, one step per await point *)

\* what an adapter's generate may return: a response naming itself, or an error
AdapterErrors == {[kind |-> "ApiError", msg |-> MsgPayment],
                  [kind |-> "NetworkError", msg |-> MsgTransient]}

AdapterOutcomes(p) ==
    {[ok |-> TRUE, response |-> [content |-> "content", provider |-> p]]}
    \cup {[ok |-> FALSE, error |-> e] : e \in AdapterErrors}

Current == candidates[idx]

LastCall == invoked[Len(invoked)]

Warn(what, p) == Append(warnings, [what |-> what, provider |-> p])

\* the for loop moves to its next candidate, or ends with NoProviderAvailable
Advance ==
    IF idx < Len(candidates)
    THEN /\ idx' = idx + 1
         /\ pc' = "check"
         /\ result' = result
    ELSE /\ idx' = idx
         /\ pc' = "done"
         /\ result' = Some([kind |-> "NoProviderAvailable"])

\* GateAnswers with Ok(false) handled like Ok(true)
GateAnswers_ignores_false(p) ==
    IF usage_logger THEN {"error", "true"} ELSE {"absent"}

\* what the health probe of the walk may answer for provider p
\* a variant in which the health tracker exists without a usage logger
GateAnswers_always_tracks(p) ==
    {"error"} \cup {IF is_available(provider_health, p, now) THEN "true" ELSE "false"}

GateAnswers(p) ==
    IF usage_logger
    THEN {"error"} \cup {IF is_available(provider_health, p, now) THEN "true" ELSE "false"}
    ELSE {"absent"}

\* pick_model: the possible results, the catalog query failing or not
pick_model(p, req) ==
    IF req.model # <<>> THEN {[ok |-> TRUE, model |-> Some(req.model)]}
    ELSE IF catalog
    THEN {[ok |-> FALSE, model |-> None]}
         \cup (IF FirstActive(p, req.hints.workload) = {}
               THEN {[ok |-> TRUE, model |-> None]}
               ELSE {[ok |-> TRUE, model |-> Some(r.model)] :
                        r \in FirstActive(p, req.hints.workload)})
    ELSE {[ok |-> TRUE, model |-> None]}

\* generate is called: the candidate list is built and the loop starts
BeginGenerate ==
    /\ pc = "idle"
    /\ candidates' = select_candidates(request)
    /\ IF select_candidates(request) = <<>>
       THEN /\ pc' = "done"
            /\ idx' = 0
            /\ result' = Some([kind |-> "NoProviderAvailable"])
       ELSE /\ pc' = "check"
            /\ idx' = 1
            /\ result' = result
    /\ UNCHANGED <<routerVars, storeVars, provider_models, provider_health, provider_usage,
                   now, ticks, request, inflight, routed_model, start, invoked, skipped,
                   warnings, reply, ops>>

\* the health gate, then the lookup of the candidate's adapter
\* a variant that does not look the candidate up in the provider map
HealthCheck_calls_unregistered ==
    /\ pc = "check"
    /\ \E g \in GateAnswers(Current) :
         /\ skipped' = IF g = "false" THEN Append(skipped, Current) ELSE skipped
         /\ warnings' = IF g = "error"
                        THEN Warn("Failed to check provider health", Current)
                        ELSE warnings
         /\ IF g # "false"
            THEN /\ pc' = "resolve"
                 /\ idx' = idx
                 /\ result' = result
            ELSE Advance
    /\ UNCHANGED <<routerVars, storeVars, provider_models, provider_health, provider_usage,
                   now, ticks, request, inflight, candidates, routed_model, start, invoked,
                   reply, ops>>

HealthCheck ==
    /\ pc = "check"
    /\ \E g \in GateAnswers(Current) :
         /\ skipped' = IF g = "false" THEN Append(skipped, Current) ELSE skipped
         /\ warnings' = IF g = "error"
                        THEN Warn("Failed to check provider health", Current)
                        ELSE warnings
         /\ IF g # "false" /\ Current \in providers
            THEN /\ pc' = "resolve"
                 /\ idx' = idx
                 /\ result' = result
            ELSE Advance
    /\ UNCHANGED <<routerVars, storeVars, provider_models, provider_health, provider_usage,
                   now, ticks, request, inflight, candidates, routed_model, start, invoked,
                   reply, ops>>

\* ResolveAndCall starting the adapter and going on to the next candidate
\* without waiting for it
\* a variant in which the routed request is kept across candidates instead of
\* being cloned from the caller's request for each one
ResolveAndCall_keeps_model ==
    /\ pc = "resolve"
    /\ LET base == IF routed_model # <<>> THEN routed_model ELSE request.model
       IN IF base = <<>>
          THEN \E picked \in pick_model(Current, request) :
                 IF picked.ok
                 THEN /\ routed_model' = IF IsSome(picked.model)
                                         THEN Unwrap(picked.model) ELSE base
                      /\ start' = now
                      /\ invoked' = Append(invoked, [provider |-> Current,
                                                     model |-> routed_model',
                                                     outcome |-> None])
                      /\ pc' = "call"
                      /\ result' = result
                 ELSE /\ result' = Some([kind |-> "DatabaseError", from |-> "pick_model"])
                      /\ pc' = "done"
                      /\ UNCHANGED <<routed_model, start, invoked>>
          ELSE /\ routed_model' = base
               /\ start' = now
               /\ invoked' = Append(invoked, [provider |-> Current, model |-> base,
                                              outcome |-> None])
               /\ pc' = "call"
               /\ result' = result
    /\ UNCHANGED <<routerVars, storeVars, provider_models, provider_health, provider_usage,
                   now, ticks, request, inflight, candidates, idx, skipped, warnings,
                   reply, ops>>

ResolveAndCall_no_wait ==
    /\ pc = "resolve"
    /\ routed_model' = request.model
    /\ start' = now
    /\ invoked' = Append(invoked, [provider |-> Current, model |-> request.model,
                                   outcome |-> None])
    /\ IF idx < Len(candidates)
       THEN pc' = "check" /\ idx' = idx + 1
       ELSE pc' = "call" /\ idx' = idx
    /\ UNCHANGED <<routerVars, storeVars, provider_models, provider_health, provider_usage,
                   now, ticks, request, inflight, candidates, skipped, warnings, result,
                   reply, ops>>

\* the request is copied, its model filled in from the catalog if empty, and the
\* adapter is called
ResolveAndCall ==
    /\ pc = "resolve"
    /\ IF request.model = <<>>
       THEN \E picked \in pick_model(Current, request) :
              IF picked.ok
              THEN /\ routed_model' = IF IsSome(picked.model) THEN Unwrap(picked.model)
                                      ELSE request.model
                   /\ start' = now
                   /\ invoked' = Append(invoked, [provider |-> Current,
                                                  model |-> routed_model',
                                                  outcome |-> None])
                   /\ pc' = "call"
                   /\ result' = result
              ELSE /\ result' = Some([kind |-> "DatabaseError", from |-> "pick_model"])
                   /\ pc' = "done"
                   /\ UNCHANGED <<routed_model, start, invoked>>
       ELSE /\ routed_model' = request.model
            /\ start' = now
            /\ invoked' = Append(invoked, [provider |-> Current,
                                           model |-> request.model,
                                           outcome |-> None])
            /\ pc' = "call"
            /\ result' = result
    /\ UNCHANGED <<routerVars, storeVars, provider_models, provider_health, provider_usage,
                   now, ticks, request, inflight, candidates, idx, skipped, warnings,
                   reply, ops>>

\* AdapterReturn going to the usage log without the health record
AdapterReturn_skips_record ==
    /\ pc = "call"
    /\ \E out \in AdapterOutcomes(Current) :
         invoked' = [invoked EXCEPT ![Len(invoked)].outcome = Some(out)]
    /\ pc' = "log"
    /\ UNCHANGED <<routerVars, storeVars, provider_models, provider_health, provider_usage,
                   now, ticks, request, inflight, candidates, idx, routed_model, start,
                   skipped, warnings, result, reply, ops>>

\* the adapter's future resolves
AdapterReturn ==
    /\ pc = "call"
    /\ \E out \in AdapterOutcomes(Current) :
         invoked' = [invoked EXCEPT ![Len(invoked)].outcome = Some(out)]
    /\ pc' = "health"
    /\ UNCHANGED <<routerVars, storeVars, provider_models, provider_health, provider_usage,
                   now, ticks, request, inflight, candidates, idx, routed_model, start,
                   skipped, warnings, result, reply, ops>>

\* RecordHealth with the record_* error returned by ? instead of logged
RecordHealth_propagates ==
    /\ pc = "health"
    /\ LET out == Unwrap(LastCall.outcome) IN
       IF usage_logger
       THEN \E dbok \in BOOLEAN :
              IF dbok
              THEN /\ provider_health' =
                        IF out.ok
                        THEN record_success(provider_health, Current, now)
                        ELSE record_failure(provider_health, Current,
                                            AppError_to_string(out.error), now)
                   /\ pc' = "log"
                   /\ result' = result
              ELSE /\ provider_health' = provider_health
                   /\ pc' = "done"
                   /\ result' = Some([kind |-> "DatabaseError", from |-> "record"])
       ELSE /\ pc' = "log"
            /\ UNCHANGED <<provider_health, result>>
    /\ UNCHANGED <<routerVars, storeVars, provider_models, provider_usage, now, ticks,
                   request, inflight, candidates, idx, routed_model, start, invoked,
                   skipped, warnings, reply, ops>>

\* record_success or record_failure; its error is logged and dropped
RecordHealth ==
    /\ pc = "health"
    /\ LET out == Unwrap(LastCall.outcome) IN
       IF usage_logger
       THEN \E dbok \in BOOLEAN :
              IF dbok
              THEN /\ provider_health' =
                        IF out.ok
                        THEN record_success(provider_health, Current, now)
                        ELSE record_failure(provider_health, Current,
                                            AppError_to_string(out.error), now)
                   /\ warnings' = warnings
              ELSE /\ provider_health' = provider_health
                   /\ warnings' = Warn(IF out.ok
                                       THEN "Failed to record provider success"
                                       ELSE "Failed to record provider failure",
                                       Current)
       ELSE UNCHANGED <<provider_health, warnings>>
    /\ pc' = "log"
    /\ UNCHANGED <<routerVars, storeVars, provider_models, provider_usage, now, ticks,
                   request, inflight, candidates, idx, routed_model, start, invoked,
                   skipped, result, reply, ops>>

\* UsageRow with every attempt logged as a success
UsageRow_always_success(p, model, success, latency_ms, error_message, t) ==
    [provider |-> p, model |-> Some(model), success |-> 1,
     latency_ms |-> latency_ms, error_message |-> error_message, created_at |-> t]

\* the row UsageLogger::log inserts
UsageRow(p, model, success, latency_ms, error_message, t) ==
    [provider |-> p, model |-> Some(model), success |-> IF success THEN 1 ELSE 0,
     latency_ms |-> latency_ms, error_message |-> error_message, created_at |-> t]

\* AfterAttempt without the return on success, except at the last candidate
AfterAttempt_no_return(out) ==
    IF out.ok /\ idx = Len(candidates)
    THEN /\ result' = Some([kind |-> "Ok", response |-> out.response])
         /\ pc' = "done"
         /\ idx' = idx
    ELSE Advance

\* what generate does once the usage log call of an attempt is over
AfterAttempt(out) ==
    IF out.ok
    THEN /\ result' = Some([kind |-> "Ok", response |-> out.response])
         /\ pc' = "done"
         /\ idx' = idx
    ELSE Advance

\* the usage row is written (its error logged and dropped); then generate
\* returns the response, or goes on to the next candidate
LogUsage ==
    /\ pc = "log"
    /\ LET out == Unwrap(LastCall.outcome)
           row == UsageRow(Current, routed_model, out.ok, 1000 * (now - start),
                           IF out.ok THEN None
                           ELSE Some(AppError_to_string(out.error)), now)
           w1  == IF out.ok THEN warnings
                  ELSE Warn("Provider call failed; trying next candidate", Current)
       IN /\ IF usage_logger
             THEN \E dbok \in BOOLEAN :
                    IF dbok
                    THEN /\ provider_usage' = Append(provider_usage, row)
                         /\ warnings' = w1
                    ELSE /\ provider_usage' = provider_usage
                         /\ warnings' =
                              IF out.ok
                              THEN Warn("Failed to log provider usage", Current)
                              ELSE Append(Warn("Failed to log provider usage", Current),
                                          [what |-> "Provider call failed; trying next candidate",
                                           provider |-> Current])
             ELSE /\ provider_usage' = provider_usage
                  /\ warnings' = w1
          /\ AfterAttempt(out)
    /\ UNCHANGED <<routerVars, storeVars, provider_models, provider_health, now, ticks,
                   request, inflight, candidates, routed_model, start, invoked, skipped,
                   reply, ops>>

WalkClockSteps == {30, 24 * 3600}

\* time passes while generate runs
WalkTick ==
    /\ pc # "done"
    /\ ticks < MaxWalkTicks
    /\ \E d \in WalkClockSteps : now' = now + d
    /\ ticks' = ticks + 1
    /\ UNCHANGED <<routerVars, storeVars, walkVars, provider_models, provider_health,
                   provider_usage, reply, ops>>

----------------------------------------------------------------------------
(* Construction of the router *)

\* from_map_internal without the check for an empty map
from_map_internal_unchecked(provs, order, logger, cat) ==
    [ok |-> TRUE, providers |-> provs, fallback_order |-> order,
     usage_logger |-> logger, catalog |-> cat]

from_map_internal(provs, order, logger, cat) ==
    IF provs = {}
    THEN [ok |-> FALSE, error |-> [kind |-> "ConfigError",
                                   msg |-> <<"No AI providers supplied to router">>]]
    ELSE [ok |-> TRUE, providers |-> provs, fallback_order |-> order,
          usage_logger |-> logger, catalog |-> cat]

from_map(provs, order) == from_map_internal(provs, order, FALSE, FALSE)

\* the providers from_config constructs, in the order it tries them
ConfigOrder == <<"huggingface", "google", "groq", "deepseek", "together">>

RECURSIVE Filter(_, _)
Filter(seq, keep) ==
    IF seq = <<>> THEN <<>>
    ELSE IF Head(seq) \in keep THEN <<Head(seq)>> \o Filter(Tail(seq), keep)
    ELSE Filter(Tail(seq), keep)

\* from_config, given the providers for which it obtains a credential
from_config(credentialed, logger, cat) ==
    from_map_internal(credentialed \cap Range(ConfigOrder),
                      Filter(ConfigOrder, credentialed), logger, cat)

----------------------------------------------------------------------------
(* Spec: one generate call on a router, over a persisted database *)

WalkSetups ==
    {from_config({"google", "groq"}, TRUE, TRUE),
     from_map({"huggingface", "google", "groq"}, <<"huggingface", "google", "groq">>),
     from_map({"google"}, <<"groq", "google", "google">>)}

WalkRequests ==
    {[model |-> <<>>, tags |-> <<>>, hints |-> [NoHints EXCEPT !.workload = Some("chat")]],
     [model |-> <<"GPT", "-4o">>, tags |-> << <<"provider:", "google">> >>,
      hints |-> NoHints],
     [model |-> <<>>, tags |-> <<>>,
      hints |-> [NoHints EXCEPT !.provider = Some("groq"), !.speed = Some("Fast")]]}

ModelRow(p, w, m, st, prio, t) ==
    [provider |-> p, workload |-> w, model |-> m, status |-> st,
     priority |-> prio, updated_at |-> t]

WalkRosters ==
    {{},
     {ModelRow("google", "chat", <<"gemini", "-1.5-flash">>, "active", 10, -20),
      ModelRow("google", "chat", <<"gemini", "-1.5-pro">>, "active", 20, -20),
      ModelRow("google", "chat", <<"gemini", "-2.0-flash">>, "active", 10, -10),
      ModelRow("google", "code", <<"gemini", "-code">>, "active", 5, -20),
      ModelRow("groq", "chat", <<"llama", "-3.3-70b-versatile">>, "retired", 10, -20)}}

HistoryProviders == {"google", "groq"}

\* the health tables that n record_* calls of earlier generate calls leave
RECURSIVE HealthAfter(_)
HealthAfter(n) ==
    IF n = 0 THEN {EmptyHealth}
    ELSE LET prev == HealthAfter(n - 1) IN
         prev
         \cup {record_success(t, p, 0) : t \in prev, p \in HistoryProviders}
         \cup UNION {{record_failure(t, p, AppError_to_string(e), 0) :
                        t \in prev, p \in HistoryProviders} : e \in AdapterErrors}

StartTimes == {0, 24 * 3600 - 30}

Init ==
    /\ \E setup \in WalkSetups :
         /\ setup.ok
         /\ providers = setup.providers
         /\ fallback_order = setup.fallback_order
         /\ usage_logger = setup.usage_logger
         /\ catalog = setup.catalog
    /\ provider_models \in WalkRosters
    /\ provider_health \in HealthAfter(MaxHistory)
    /\ provider_usage = <<>>
    /\ provider_credentials = {}
    /\ provider_model_suggestions = {}
    /\ tokens_set = [p \in Provider |-> <<>>]
    /\ now \in StartTimes
    /\ ticks = 0
    /\ request \in WalkRequests
    /\ inflight = <<>>
    /\ pc = "idle"
    /\ candidates = <<>>
    /\ idx = 0
    /\ routed_model = <<>>
    /\ start = 0
    /\ invoked = <<>>
    /\ skipped = <<>>
    /\ warnings = <<>>
    /\ result = None
    /\ reply = None
    /\ ops = 0

Next ==
    \/ BeginGenerate
    \/ HealthCheck
    \/ ResolveAndCall
    \/ AdapterReturn
    \/ RecordHealth
    \/ LogUsage
    \/ WalkTick

Spec == Init /\ [][Next]_vars

\* the caller makes the same request again on the same router after generate
\* has returned; what the call before did is kept in reply
NewRequest ==
    /\ pc = "done"
    /\ ops + 1 < MaxRequests
    /\ ops' = ops + 1
    /\ reply' = Some([op |-> "generate", invoked |-> invoked, skipped |-> skipped,
                      result |-> result])
    /\ pc' = "idle"
    /\ candidates' = <<>>
    /\ idx' = 0
    /\ routed_model' = <<>>
    /\ start' = 0
    /\ invoked' = <<>>
    /\ skipped' = <<>>
    /\ warnings' = <<>>
    /\ result' = None
    /\ UNCHANGED <<routerVars, storeVars, provider_models, provider_health,
                   provider_usage, now, ticks, request, inflight>>

\* the health table is empty, or holds the record another process wrote for a
\* rate-limited Google
RetryHealth == {EmptyHealth, record_failure(EmptyHealth, "google", MsgRateLimit, 0)}

\* the requests follow each other at once, on an empty roster
InitRetry ==
    /\ \E setup \in WalkSetups :
         /\ setup.ok
         /\ providers = setup.providers
         /\ fallback_order = setup.fallback_order
         /\ usage_logger = setup.usage_logger
         /\ catalog = setup.catalog
    /\ provider_models = {}
    /\ provider_health \in RetryHealth
    /\ provider_usage = <<>>
    /\ provider_credentials = {}
    /\ provider_model_suggestions = {}
    /\ tokens_set = [p \in Provider |-> <<>>]
    /\ now = 0
    /\ ticks = 0
    /\ request \in WalkRequests
    /\ inflight = <<>>
    /\ pc = "idle"
    /\ candidates = <<>>
    /\ idx = 0
    /\ routed_model = <<>>
    /\ start = 0
    /\ invoked = <<>>
    /\ skipped = <<>>
    /\ warnings = <<>>
    /\ result = None
    /\ reply = None
    /\ ops = 0

NextRetry ==
    \/ BeginGenerate
    \/ HealthCheck
    \/ ResolveAndCall
    \/ AdapterReturn
    \/ RecordHealth
    \/ LogUsage
    \/ NewRequest

SpecRetry == InitRetry /\ [][NextRetry]_vars

\* the steps of one generate call, each ending at an await point or at the
\* return
WalkStep ==
    \/ BeginGenerate
    \/ HealthCheck
    \/ ResolveAndCall
    \/ AdapterReturn
    \/ RecordHealth
    \/ LogUsage

----------------------------------------------------------------------------
(* SpecSelect: select_candidates over routers built by from_map and requests *)

SelectProviders == {"openai", "google", "huggingface", "groq"}

\* the sequences over S of length at most n
RECURSIVE SeqsUpTo(_, _)
SeqsUpTo(S, n) ==
    IF n = 0 THEN {<<>>}
    ELSE SeqsUpTo(S, n - 1)
         \cup {Append(q, x) : q \in {r \in SeqsUpTo(S, n - 1) : Len(r) = n - 1}, x \in S}

SelectModels ==
    {<<>>, <<"GPT", "-4o">>, <<"Gemini", "-1.5-pro">>,
     <<"meta-", "Llama", "/", "Llama", "-3.3-70B-Instruct-Turbo-Free">>,
     <<"groq", "/", "llama", "3-8b">>}

SelectTags ==
    {<<>>,
     << <<"provider:", "google">> >>,
     << <<"team:", "search">>, <<"provider:", " hf ">> >>,
     << <<"provider:", "nobody">>, <<"provider:", "groq">>, <<"provider:", "google">> >>}

SelectHints ==
    {[provider |-> hp, quality |-> qc[1], complexity |-> qc[2], speed |-> sp,
      workload |-> None] :
        hp \in {None, Some("HF"), Some("openai"), Some("nobody")},
        qc \in {<<None, None>>, <<Some("Premium"), None>>, <<None, Some("High")>>,
                <<Some("Standard"), Some("Low")>>},
        sp \in {None, Some("Fast")}}

InitSelect ==
    /\ \E provs \in (SUBSET SelectProviders) \ {{}},
          order \in SeqsUpTo(SelectProviders, MaxOrder) :
         LET setup == from_map(provs, order) IN
         /\ setup.ok
         /\ providers = setup.providers
         /\ fallback_order = setup.fallback_order
         /\ usage_logger = setup.usage_logger
         /\ catalog = setup.catalog
    /\ provider_models = {}
    /\ provider_health = EmptyHealth
    /\ provider_usage = <<>>
    /\ provider_credentials = {}
    /\ provider_model_suggestions = {}
    /\ tokens_set = [p \in Provider |-> <<>>]
    /\ now = 0
    /\ ticks = 0
    /\ \E m \in SelectModels, tg \in SelectTags, h \in SelectHints :
         request = [model |-> m, tags |-> tg, hints |-> h]
    /\ inflight = <<>>
    /\ pc = "idle"
    /\ candidates = <<>>
    /\ idx = 0
    /\ routed_model = <<>>
    /\ start = 0
    /\ invoked = <<>>
    /\ skipped = <<>>
    /\ warnings = <<>>
    /\ result = None
    /\ reply = None
    /\ ops = 0

NextSelect == BeginGenerate

SpecSelect == InitSelect /\ [][NextSelect]_vars

----------------------------------------------------------------------------
(* SpecGate: is_available over the rows the provider_health table can hold *)

GateTimes == {0, 30, 120}

GateRows ==
    {None} \cup
    {Some([status |-> st, last_error |-> None, last_error_at |-> None,
           retry_after |-> ra, consecutive_failures |-> cf,
           last_success_at |-> None, updated_at |-> 0]) :
        st \in {"available", "degraded", "unavailable"},
        ra \in {None} \cup {Some(t) : t \in GateTimes},
        cf \in {0, 1}}

InitGate ==
    /\ IdleWalk
    /\ \E row \in GateRows : provider_health = [EmptyHealth EXCEPT !["groq"] = row]
    /\ now \in GateTimes
    /\ ticks = 0
    /\ reply = None
    /\ ops = 0

NextGate ==
    \/ Tick
    \/ IsAvailableOp("groq")

SpecGate == InitGate /\ [][NextGate]_vars

----------------------------------------------------------------------------
(* CredentialStore: src/src/credentials.rs *)

MasterKey == "secret.key"

\* the nonces OsRng may draw
Nonces == {"n1", "n2"}

\* XChaCha20Poly1305: a ciphertext opens only under the key and nonce that made it
encrypt(key, nonce, plaintext) ==
    [key |-> key, nonce |-> nonce, sealed |-> plaintext]

decrypt(key, nonce, ciphertext) ==
    IF ciphertext.key = key /\ ciphertext.nonce = nonce
    THEN Some(ciphertext.sealed) ELSE None

\* get_token, given that its query succeeded
get_token(table, provider) ==
    LET record == {r \in table : r.provider = provider} IN
    IF record = {} THEN [ok |-> TRUE, value |-> None]
    ELSE LET r == CHOOSE x \in record : TRUE
             plaintext == decrypt(MasterKey, r.nonce, r.ciphertext)
         IN IF IsSome(plaintext)
            THEN [ok |-> TRUE, value |-> plaintext]
            ELSE [ok |-> FALSE,
                  error |-> [kind |-> "ApiError", msg |-> <<"Failed to decrypt credential">>]]

\* set_token as INSERT OR IGNORE: an existing record is kept
set_token_insert_only(table, provider, token, nonce, t) ==
    IF \E r \in table : r.provider = provider THEN table
    ELSE table \cup {[provider |-> provider, nonce |-> nonce,
                      ciphertext |-> encrypt(MasterKey, nonce, token),
                      created_at |-> t, updated_at |-> t]}

\* the upsert of set_token applied to the table
set_token(table, provider, token, nonce, t) ==
    LET old == {r \in table : r.provider = provider}
        ciphertext == encrypt(MasterKey, nonce, token)
    IN IF old = {}
       THEN table \cup {[provider |-> provider, nonce |-> nonce,
                         ciphertext |-> ciphertext, created_at |-> t, updated_at |-> t]}
       ELSE (table \ old)
            \cup {[r EXCEPT !.nonce = nonce, !.ciphertext = ciphertext, !.updated_at = t] :
                     r \in old}

\* the DELETE of remove_token applied to the table
remove_token(table, provider) == {r \in table : r.provider # provider}

CredentialProviders == {"google", "groq"}

Tokens == {"tokA", "tokB", " "}

SetTokenOp(p, token) ==
    /\ ops < MaxOps
    /\ ops' = ops + 1
    /\ \E dbok \in BOOLEAN, nonce \in Nonces :
         /\ provider_credentials' =
               IF dbok THEN set_token(provider_credentials, p, token, nonce, now)
               ELSE provider_credentials
         /\ tokens_set' = IF dbok THEN [tokens_set EXCEPT ![p] = Append(@, token)]
                          ELSE tokens_set
         /\ reply' = Some([op |-> "set_token", provider |-> p, at |-> now,
                           value |-> IF dbok THEN Some(token) ELSE None])
    /\ UNCHANGED <<routerVars, walkVars, provider_models, provider_health,
                   provider_usage, now, ticks, provider_model_suggestions>>

RemoveTokenOp(p) ==
    /\ ops < MaxOps
    /\ ops' = ops + 1
    /\ \E dbok \in BOOLEAN :
         /\ provider_credentials' =
               IF dbok THEN remove_token(provider_credentials, p) ELSE provider_credentials
         /\ tokens_set' = IF dbok THEN [tokens_set EXCEPT ![p] = <<>>] ELSE tokens_set
         /\ reply' = Some([op |-> "remove_token", provider |-> p, at |-> now,
                           value |-> IF dbok
                                     THEN Some(\E r \in provider_credentials : r.provider = p)
                                     ELSE None])
    /\ UNCHANGED <<routerVars, walkVars, provider_models, provider_health,
                   provider_usage, now, ticks, provider_model_suggestions>>

GetTokenOp(p) ==
    /\ \E dbok \in BOOLEAN :
         reply' = Some([op |-> "get_token", provider |-> p, at |-> now,
                        value |-> IF dbok /\ get_token(provider_credentials, p).ok
                                  THEN Some(get_token(provider_credentials, p).value)
                                  ELSE None])
    /\ UNCHANGED <<routerVars, walkVars, storeVars, provider_models, provider_health,
                   provider_usage, now, ticks, ops>>

----------------------------------------------------------------------------
(* ProviderRouter::from_config over the static configuration and the store *)

\* cfg.and_then(|cfg| trimmed api_key, if not empty): cfg[p] is the api_key of
\* the provider's section, None when the section is absent
config_token(cfg, p) ==
    IF IsSome(cfg[p]) /\ Trim(Unwrap(cfg[p])) # ""
    THEN Some(Trim(Unwrap(cfg[p]))) ELSE None

\* the new() of the adapter of provider p
Client_new(p, api_key) ==
    IF p \in {"groq", "deepseek", "together"} /\ Trim(api_key) = ""
    THEN [ok |-> FALSE,
          error |-> [kind |-> "ConfigError", msg |-> <<"API key cannot be empty">>]]
    ELSE [ok |-> TRUE]

\* the block of from_config for provider p: whether the adapter was built, or
\* the error the block returns with; failing holds the providers whose
\* get_token query fails
ProviderBlock(cfg, p, table, failing) ==
    IF p = "google"
    THEN [ok |-> TRUE, built |-> IsSome(cfg[p]) /\ Trim(Unwrap(cfg[p])) # ""]
    ELSE LET token ==
                 IF IsSome(config_token(cfg, p))
                 THEN [ok |-> TRUE, value |-> config_token(cfg, p)]
                 ELSE IF p \in failing
                 THEN [ok |-> FALSE,
                       error |-> [kind |-> "DatabaseError", msg |-> <<"query failed">>]]
                 ELSE get_token(table, p)
         IN IF ~token.ok THEN [ok |-> FALSE, error |-> token.error]
            ELSE IF token.value = None THEN [ok |-> TRUE, built |-> FALSE]
            ELSE IF Client_new(p, Unwrap(token.value)).ok THEN [ok |-> TRUE, built |-> TRUE]
            ELSE [ok |-> FALSE, error |-> Client_new(p, Unwrap(token.value)).error]

\* the blocks of from_config run in order, stopping at the first error
RECURSIVE BuildProviders(_, _, _, _, _)
BuildProviders(cfg, order, table, failing, built) ==
    IF order = <<>> THEN [ok |-> TRUE, built |-> built]
    ELSE LET b == ProviderBlock(cfg, Head(order), table, failing) IN
         IF ~b.ok THEN b
         ELSE BuildProviders(cfg, Tail(order), table, failing,
                             IF b.built THEN built \cup {Head(order)} ELSE built)

\* from_config with its configuration and its credential store
from_config_store(cfg, table, failing, logger, cat) ==
    LET b == BuildProviders(cfg, ConfigOrder, table, failing, {}) IN
    IF b.ok THEN from_config(b.built, logger, cat) ELSE b

Configs ==
    {[p \in Range(ConfigOrder) |->
         CASE p = "huggingface" -> hf
           [] p = "google"      -> g
           [] p = "groq"        -> q
           [] OTHER             -> None] :
        hf \in {None, Some("key")},
        g \in {None, Some(" "), Some("key")},
        q \in {None, Some(" "), Some(" key ")}}

MapProviders == {"google", "huggingface"}

\* the router fields a construction that succeeded returns
Built(setup) ==
    /\ providers' = setup.providers
    /\ fallback_order' = setup.fallback_order
    /\ usage_logger' = setup.usage_logger
    /\ catalog' = setup.catalog

\* a behaviour constructs one router
FromMapOp(provs, order) ==
    /\ providers = {}
    /\ LET setup == from_map(provs, order) IN
       /\ reply' = Some([op |-> "from_map", provs |-> provs, order |-> order,
                         value |-> Some(setup)])
       /\ IF setup.ok THEN Built(setup) ELSE UNCHANGED routerVars
    /\ UNCHANGED <<walkVars, storeVars, provider_models, provider_health,
                   provider_usage, now, ticks, ops>>

FromConfigOp(cfg, failing, attached) ==
    /\ providers = {}
    /\ LET setup == from_config_store(cfg, provider_credentials, failing,
                                      attached, attached) IN
       /\ reply' = Some([op |-> "from_config", config |-> cfg, failing |-> failing,
                         value |-> Some(setup)])
       /\ IF setup.ok THEN Built(setup) ELSE UNCHANGED routerVars
    /\ UNCHANGED <<walkVars, storeVars, provider_models, provider_health,
                   provider_usage, now, ticks, ops>>

\* no router constructed yet, on a fresh database
InitBuild ==
    /\ providers = {}
    /\ fallback_order = <<>>
    /\ usage_logger = FALSE
    /\ catalog = FALSE
    /\ provider_models = {}
    /\ provider_health = EmptyHealth
    /\ provider_usage = <<>>
    /\ provider_credentials = {}
    /\ provider_model_suggestions = {}
    /\ tokens_set = [p \in Provider |-> <<>>]
    /\ now = 0
    /\ ticks = 0
    /\ request = NoRequest
    /\ inflight = <<>>
    /\ pc = "idle"
    /\ candidates = <<>>
    /\ idx = 0
    /\ routed_model = <<>>
    /\ start = 0
    /\ invoked = <<>>
    /\ skipped = <<>>
    /\ warnings = <<>>
    /\ result = None
    /\ reply = None
    /\ ops = 0

NextBuild ==
    \/ \E p \in CredentialProviders, token \in Tokens : SetTokenOp(p, token)
    \/ \E p \in CredentialProviders : RemoveTokenOp(p)
    \/ \E p \in CredentialProviders : GetTokenOp(p)
    \/ \E provs \in SUBSET MapProviders, order \in SeqsUpTo(MapProviders, MaxOrder) :
         FromMapOp(provs, order)
    \/ \E cfg \in Configs, failing \in SUBSET {"huggingface", "groq"},
          attached \in BOOLEAN :
         FromConfigOp(cfg, failing, attached)

SpecBuild == InitBuild /\ [][NextBuild]_vars

----------------------------------------------------------------------------
(* CatalogStore, its methods called one after another: src/src/catalog.rs *)

SameKey(r, p, w, m) == r.provider = p /\ r.workload = w /\ r.model = m

\* adopt_insert leaving the priority of an existing row as it is
adopt_insert_keeps_priority(table, p, w, m, priority, t) ==
    IF \E r \in table : SameKey(r, p, w, m)
    THEN {IF SameKey(r, p, w, m) THEN [r EXCEPT !.status = "active", !.updated_at = t]
          ELSE r : r \in table}
    ELSE table \cup {[provider |-> p, workload |-> w, model |-> m, status |-> "active",
                      priority |-> priority, updated_at |-> t]}

\* first statement of adopt_model: INSERT .. ON CONFLICT(provider, workload,
\* model) DO UPDATE SET status = 'active', priority, updated_at
adopt_insert(table, p, w, m, priority, t) ==
    {r \in table : ~SameKey(r, p, w, m)}
    \cup {[provider |-> p, workload |-> w, model |-> m, status |-> "active",
           priority |-> priority, updated_at |-> t]}

\* second statement of adopt_model: UPDATE provider_model_suggestions
\* SET status = 'adopted' WHERE the key matches
adopt_mark(suggestions, p, w, m, t) ==
    {IF SameKey(r, p, w, m) THEN [r EXCEPT !.status = "adopted", !.updated_at = t]
     ELSE r : r \in suggestions}

\* retire_model deleting the row instead of marking it
retire_model_deletes(table, p, w, m, t) == {r \in table : ~SameKey(r, p, w, m)}

\* UPDATE provider_models SET status = 'retired' WHERE the key matches
retire_model(table, p, w, m, t) ==
    {IF SameKey(r, p, w, m) THEN [r EXCEPT !.status = "retired", !.updated_at = t]
     ELSE r : r \in table}

\* INSERT .. ON CONFLICT(provider, workload, model) DO UPDATE SET status, updated_at
upsert_suggestion(suggestions, p, w, m, status, t) ==
    {r \in suggestions : ~SameKey(r, p, w, m)}
    \cup {[provider |-> p, workload |-> w, model |-> m, status |-> status,
           updated_at |-> t]}

\* entries of the defaults that seed_defaults goes through, in its order
Defaults ==
    << [provider |-> "groq", workload |-> "chat",
        model |-> <<"llama", "-3.3-70b-versatile">>, priority |-> 10],
       [provider |-> "deepseek", workload |-> "chat",
        model |-> <<"deepseek", "-chat">>, priority |-> 20],
       [provider |-> "google", workload |-> "chat",
        model |-> <<"gemini", "-2.0-flash">>, priority |-> 40] >>

\* seed_one as INSERT OR REPLACE: the default row is written over an existing one
seed_one_replaces(table, d, t) ==
    IF active_models_in(table, d.provider, Some(d.workload)) = {}
    THEN {r \in table : ~SameKey(r, d.provider, d.workload, d.model)}
         \cup {[provider |-> d.provider, workload |-> d.workload,
                model |-> d.model, status |-> "active",
                priority |-> d.priority, updated_at |-> t]}
    ELSE table

\* one turn of the loop of seed_defaults: INSERT OR IGNORE when the pair has no
\* active model
seed_one(table, d, t) ==
    IF active_models_in(table, d.provider, Some(d.workload)) = {}
       /\ ~\E r \in table : SameKey(r, d.provider, d.workload, d.model)
    THEN table \cup {[provider |-> d.provider, workload |-> d.workload,
                      model |-> d.model, status |-> "active",
                      priority |-> d.priority, updated_at |-> t]}
    ELSE table

\* the first k turns of the loop
RECURSIVE seed_defaults(_, _, _)
seed_defaults(table, k, t) ==
    IF k = 0 THEN table
    ELSE seed_one(seed_defaults(table, k - 1, t), Defaults[k], t)

CatalogKeys ==
    {<<"groq", "chat", <<"llama", "-3.3-70b-versatile">> >>,
     <<"deepseek", "chat", <<"deepseek", "-chat">> >>,
     <<"google", "chat", <<"gemini", "-1.5-pro">> >>}

Priorities == {10, 30}

\* adopt_model: either statement may fail, and the second is not run after the
\* first failed
AdoptModelOp(key, priority) ==
    /\ ops < MaxOps
    /\ ops' = ops + 1
    /\ \E outcome \in {"insert failed", "update failed", "ok"} :
         /\ provider_models' =
               IF outcome = "insert failed" THEN provider_models
               ELSE adopt_insert(provider_models, key[1], key[2], key[3], priority, now)
         /\ provider_model_suggestions' =
               IF outcome = "ok"
               THEN adopt_mark(provider_model_suggestions, key[1], key[2], key[3], now)
               ELSE provider_model_suggestions
         /\ reply' = Some([op |-> "adopt_model", key |-> key, priority |-> priority,
                           at |-> now, inserted |-> outcome # "insert failed",
                           value |-> IF outcome = "ok" THEN Some(TRUE) ELSE None])
    /\ UNCHANGED <<routerVars, walkVars, provider_health, provider_usage, now, ticks,
                   provider_credentials, tokens_set>>

RetireModelOp(key) ==
    /\ ops < MaxOps
    /\ ops' = ops + 1
    /\ \E dbok \in BOOLEAN :
         /\ provider_models' =
               IF dbok THEN retire_model(provider_models, key[1], key[2], key[3], now)
               ELSE provider_models
         /\ reply' = Some([op |-> "retire_model", key |-> key, at |-> now,
                           value |-> IF dbok
                                     THEN Some(\E r \in provider_models :
                                                  SameKey(r, key[1], key[2], key[3]))
                                     ELSE None])
    /\ UNCHANGED <<routerVars, walkVars, storeVars, provider_health, provider_usage,
                   now, ticks>>

UpsertSuggestionOp(key, status) ==
    /\ ops < MaxOps
    /\ ops' = ops + 1
    /\ \E dbok \in BOOLEAN :
         /\ provider_model_suggestions' =
               IF dbok
               THEN upsert_suggestion(provider_model_suggestions, key[1], key[2], key[3],
                                      status, now)
               ELSE provider_model_suggestions
         /\ reply' = Some([op |-> "upsert_suggestion", key |-> key, at |-> now,
                           value |-> IF dbok THEN Some(TRUE) ELSE None])
    /\ UNCHANGED <<routerVars, walkVars, provider_models, provider_health,
                   provider_usage, now, ticks, provider_credentials, tokens_set>>

\* seed_defaults: a failing statement ends the loop after k turns
SeedDefaultsOp ==
    /\ ops < MaxOps
    /\ ops' = ops + 1
    /\ \E k \in 0..Len(Defaults) :
         /\ provider_models' = seed_defaults(provider_models, k, now)
         /\ reply' = Some([op |-> "seed_defaults", at |-> now,
                           value |-> IF k = Len(Defaults) THEN Some(TRUE) ELSE None])
    /\ UNCHANGED <<routerVars, walkVars, storeVars, provider_health, provider_usage,
                   now, ticks>>

InitCatalog ==
    /\ providers = {"groq", "google"}
    /\ fallback_order = <<"groq", "google">>
    /\ usage_logger = TRUE
    /\ catalog = TRUE
    /\ provider_models \in WalkRosters
    /\ provider_health = EmptyHealth
    /\ provider_usage = <<>>
    /\ provider_credentials = {}
    /\ provider_model_suggestions = {}
    /\ tokens_set = [p \in Provider |-> <<>>]
    /\ now = 0
    /\ ticks = 0
    /\ request = NoRequest
    /\ inflight = <<>>
    /\ pc = "idle"
    /\ candidates = <<>>
    /\ idx = 0
    /\ routed_model = <<>>
    /\ start = 0
    /\ invoked = <<>>
    /\ skipped = <<>>
    /\ warnings = <<>>
    /\ result = None
    /\ reply = None
    /\ ops = 0

NextCatalog ==
    \/ \E key \in CatalogKeys, priority \in Priorities : AdoptModelOp(key, priority)
    \/ \E key \in CatalogKeys : RetireModelOp(key)
    \/ \E key \in CatalogKeys : UpsertSuggestionOp(key, "pending")
    \/ SeedDefaultsOp
    \/ Tick

SpecCatalog == InitCatalog /\ [][NextCatalog]_vars

----------------------------------------------------------------------------
(* SpecStats: usage rows logged, models retired, and usage_stats read *)

\* the indices of the usage rows the WHERE clause of usage_stats keeps, with the
\* subquery restricted to active roster rows
Counted_active_only(usage, table, provider, workload) ==
    {i \in 1..Len(usage) :
        /\ usage[i].provider = provider
        /\ IsSome(workload) =>
              /\ IsSome(usage[i].model)
              /\ \E r \in table : /\ r.provider = provider
                                  /\ Some(r.workload) = workload
                                  /\ r.model = Unwrap(usage[i].model)
                                  /\ r.status = "active"}

\* the indices of the usage rows the WHERE clause of usage_stats keeps:
\* provider = ? AND model IN (SELECT model FROM provider_models WHERE
\* provider = ? AND workload = ?), the second part only with a workload
Counted(usage, table, provider, workload) ==
    {i \in 1..Len(usage) :
        /\ usage[i].provider = provider
        /\ IsSome(workload) =>
              /\ IsSome(usage[i].model)
              /\ \E r \in table : /\ r.provider = provider
                                  /\ Some(r.workload) = workload
                                  /\ r.model = Unwrap(usage[i].model)}

RECURSIVE SumLatency(_, _)
SumLatency(usage, rows) ==
    IF rows = {} THEN 0
    ELSE LET i == CHOOSE x \in rows : TRUE
         IN usage[i].latency_ms + SumLatency(usage, rows \ {i})

\* the UsageStats usage_stats returns; the two f64 fields are kept as fractions
usage_stats(usage, table, provider, workload) ==
    LET rows == Counted(usage, table, provider, workload)
        total_calls == Cardinality(rows)
        successful_calls == Cardinality({i \in rows : usage[i].success = 1})
    IN [total_calls |-> total_calls,
        successful_calls |-> successful_calls,
        success_rate |-> IF total_calls > 0
                         THEN <<100 * successful_calls, total_calls>> ELSE <<0, 1>>,
        avg_latency_ms |-> IF total_calls > 0
                           THEN <<SumLatency(usage, rows), total_calls>> ELSE <<0, 1>>,
        max_latency_ms |-> IF total_calls > 0
                           THEN CHOOSE l \in {usage[i].latency_ms : i \in rows} :
                                   \A i \in rows : usage[i].latency_ms <= l
                           ELSE 0]

StatsProviders == {"google", "groq"}

StatsWorkloads == {None, Some("chat"), Some("code")}

StatsModels == {<<"gemini", "-1.5-pro">>, <<"gemini", "-code">>}

StatsKeys ==
    {<<"google", "chat", <<"gemini", "-1.5-pro">> >>,
     <<"google", "code", <<"gemini", "-code">> >>}

Latencies == {100, 300}

\* UsageLogger::log called directly
LogOp(p, model, success, latency_ms) ==
    /\ ops < MaxOps
    /\ ops' = ops + 1
    /\ \E dbok \in BOOLEAN :
         /\ provider_usage' =
               IF dbok
               THEN Append(provider_usage,
                           UsageRow(p, model, success, latency_ms,
                                    IF success THEN None ELSE Some(MsgTransient), now))
               ELSE provider_usage
         /\ reply' = Some([op |-> "log", provider |-> p, at |-> now,
                           value |-> IF dbok THEN Some(TRUE) ELSE None])
    /\ UNCHANGED <<routerVars, walkVars, storeVars, provider_models, provider_health,
                   now, ticks>>

UsageStatsOp(p, workload) ==
    /\ \E dbok \in BOOLEAN :
         reply' = Some([op |-> "usage_stats", provider |-> p, workload |-> workload,
                        at |-> now,
                        value |-> IF dbok
                                  THEN Some(usage_stats(provider_usage, provider_models,
                                                        p, workload))
                                  ELSE None])
    /\ UNCHANGED <<routerVars, walkVars, storeVars, provider_models, provider_health,
                   provider_usage, now, ticks, ops>>

InitStats == InitCatalog

NextStats ==
    \/ \E p \in StatsProviders, model \in StatsModels, success \in BOOLEAN,
          latency_ms \in Latencies : LogOp(p, model, success, latency_ms)
    \/ \E key \in StatsKeys : RetireModelOp(key)
    \/ \E p \in StatsProviders, workload \in StatsWorkloads : UsageStatsOp(p, workload)

SpecStats == InitStats /\ [][NextStats]_vars

----------------------------------------------------------------------------
(* SpecConcurrent: generate calls running concurrently on a router with one   *)
(* provider; each call is a task that yields at its await points              *)

ConcurrentProvider == "groq"

Running == 1..Len(inflight)

At(i, position) == inflight[i].pc = position

Goto(i, position) == [inflight EXCEPT ![i].pc = position]

ConcurrentFrame ==
    UNCHANGED <<routerVars, storeVars, provider_models, request, pc, candidates, idx,
                routed_model, start, invoked, skipped, warnings, result, reply, ops>>

\* generate is called: select_candidates gives the one registered provider
GenerateStart ==
    /\ Len(inflight) < MaxRequests
    /\ inflight' = Append(inflight, [provider |-> ConcurrentProvider, pc |-> "check",
                                     outcome |-> None, at |-> 0, recorded |-> FALSE])
    /\ UNCHANGED <<provider_health, provider_usage, now, ticks>>
    /\ ConcurrentFrame

\* the health gate of call i
GenerateCheck(i) ==
    /\ At(i, "check")
    /\ \E g \in GateAnswers(inflight[i].provider) :
         inflight' = Goto(i, IF g = "false" THEN "done" ELSE "call")
    /\ UNCHANGED <<provider_health, provider_usage, now, ticks>>
    /\ ConcurrentFrame

\* the adapter of call i returns
GenerateCall(i) ==
    /\ At(i, "call")
    /\ \E out \in AdapterOutcomes(inflight[i].provider) :
         inflight' = [inflight EXCEPT ![i].outcome = Some(out), ![i].pc = "health"]
    /\ UNCHANGED <<provider_health, provider_usage, now, ticks>>
    /\ ConcurrentFrame

\* record_success / record_failure of call i takes Utc::now() and builds its
\* statement
GenerateRecordNow(i) ==
    /\ At(i, "health")
    /\ inflight' = [inflight EXCEPT ![i].at = now, ![i].pc = "write"]
    /\ UNCHANGED <<provider_health, provider_usage, now, ticks>>
    /\ ConcurrentFrame

\* the statement of record_success / record_failure of call i runs, or fails
GenerateRecord(i) ==
    /\ At(i, "write")
    /\ LET out == Unwrap(inflight[i].outcome)
           p == inflight[i].provider
       IN \E dbok \in BOOLEAN :
            /\ provider_health' =
                  IF ~dbok THEN provider_health
                  ELSE IF out.ok THEN record_success(provider_health, p, inflight[i].at)
                  ELSE record_failure(provider_health, p, AppError_to_string(out.error),
                                      inflight[i].at)
            /\ inflight' = [inflight EXCEPT ![i].recorded = dbok, ![i].pc = "log"]
    /\ UNCHANGED <<provider_usage, now, ticks>>
    /\ ConcurrentFrame

\* the usage row of call i is written, or its write fails; generate returns
GenerateLog(i) ==
    /\ At(i, "log")
    /\ LET out == Unwrap(inflight[i].outcome)
           row == UsageRow(inflight[i].provider, <<>>, out.ok, 0,
                           IF out.ok THEN None
                           ELSE Some(AppError_to_string(out.error)), now)
       IN \E dbok \in BOOLEAN :
            provider_usage' = IF dbok THEN Append(provider_usage, row) ELSE provider_usage
    /\ inflight' = Goto(i, "done")
    /\ UNCHANGED <<provider_health, now, ticks>>
    /\ ConcurrentFrame

\* time passes while the calls run
ConcurrentTick ==
    /\ ticks < MaxWalkTicks
    /\ \E d \in WalkClockSteps : now' = now + d
    /\ ticks' = ticks + 1
    /\ UNCHANGED <<inflight, provider_health, provider_usage>>
    /\ ConcurrentFrame

InitConcurrent ==
    /\ providers = {ConcurrentProvider}
    /\ fallback_order = <<ConcurrentProvider>>
    /\ usage_logger = TRUE
    /\ catalog = FALSE
    /\ provider_models = {}
    /\ provider_health = EmptyHealth
    /\ provider_usage = <<>>
    /\ provider_credentials = {}
    /\ provider_model_suggestions = {}
    /\ tokens_set = [p \in Provider |-> <<>>]
    /\ now = 0
    /\ ticks = 0
    /\ request = NoRequest
    /\ inflight = <<>>
    /\ pc = "idle"
    /\ candidates = <<>>
    /\ idx = 0
    /\ routed_model = <<>>
    /\ start = 0
    /\ invoked = <<>>
    /\ skipped = <<>>
    /\ warnings = <<>>
    /\ result = None
    /\ reply = None
    /\ ops = 0

NextConcurrent ==
    \/ GenerateStart
    \/ \E i \in Running : GenerateCheck(i)
    \/ \E i \in Running : GenerateCall(i)
    \/ \E i \in Running : GenerateRecordNow(i)
    \/ \E i \in Running : GenerateRecord(i)
    \/ \E i \in Running : GenerateLog(i)
    \/ ConcurrentTick

SpecConcurrent == InitConcurrent /\ [][NextConcurrent]_vars

----------------------------------------------------------------------------
(* SpecRefresh: handle_refresh_models of src/src/main.rs, from the point where *)
(* it has built its router and calls generate                                  *)

RefreshOptions ==
    {[provider |-> p, workload |-> w, dry_run |-> d] :
        p \in {None, Some("google")}, w \in {None, Some("code")}, d \in BOOLEAN}

\* options.provider.unwrap_or(Provider::HuggingFace)
RefreshTarget(options) ==
    IF IsSome(options.provider) THEN Unwrap(options.provider) ELSE "huggingface"

\* the AIRequest the refresh sends through the router
RefreshRequest ==
    [model |-> <<>>, tags |-> << <<"model-refresh">> >>,
     hints |-> [provider |-> None, quality |-> Some("Premium"),
                complexity |-> Some("Medium"), speed |-> Some("Normal"),
                workload |-> None]]

\* what the model may answer: text that is no JSON, or a JSON document whose
\* suggestions carry the two required fields or lack one
ResponseContents ==
    {[json |-> FALSE, suggestions |-> <<>>],
     [json |-> TRUE, suggestions |-> <<>>],
     [json |-> TRUE, suggestions |->
        << [model |-> Some(<<"gemini", "-1.5-pro">>), workload |-> Some("Chat")],
           [model |-> Some(<<"gemini", "-2.5-pro">>), workload |-> Some("vision")],
           [model |-> Some(<<"gemini", "-2.5-flash">>), workload |-> Some("code")] >>],
     [json |-> TRUE, suggestions |->
        << [model |-> Some(<<"gemini", "-2.5-flash">>), workload |-> Some("chat")],
           [model |-> None, workload |-> Some("chat")] >>]}

\* serde_json::from_str::<SuggestionSet>: model and workload are required fields
parse_suggestions(content) ==
    IF /\ content.json
       /\ \A i \in 1..Len(content.suggestions) :
             IsSome(content.suggestions[i].model) /\ IsSome(content.suggestions[i].workload)
    THEN Some([i \in 1..Len(content.suggestions) |->
                 [model |-> Unwrap(content.suggestions[i].model),
                  workload |-> Unwrap(content.suggestions[i].workload)]])
    ELSE None

Workloads == {"chat", "code", "summarization", "extraction", "creative", "classification"}

\* the loop over the suggestions from the i-th on; the upsert of suggestion
\* number fail_at fails (0: none does) and ends the loop with its error
RECURSIVE insert_suggestions(_, _, _, _, _, _)
insert_suggestions(table, suggestions, i, target, fail_at, t) ==
    IF i > Len(suggestions) THEN [ok |-> TRUE, table |-> table]
    ELSE IF Lower(suggestions[i].workload) \notin Workloads
    THEN insert_suggestions(table, suggestions, i + 1, target, fail_at, t)
    ELSE IF fail_at = i THEN [ok |-> FALSE, table |-> table]
    ELSE insert_suggestions(
            upsert_suggestion(table, target, Lower(suggestions[i].workload),
                              suggestions[i].model, "pending", t),
            suggestions, i + 1, target, fail_at, t)

\* refresh_after_response writing the suggestions in dry_run mode too
refresh_after_response_ignores_dry_run(options, content, table, fail_at, t) ==
    LET parsed == parse_suggestions(content) IN
    IF parsed = None
    THEN [ok |-> FALSE, error |-> "ApiError", table |-> table]
    ELSE LET r == insert_suggestions(table, Unwrap(parsed), 1, RefreshTarget(options),
                                     fail_at, t)
         IN IF r.ok THEN [ok |-> TRUE, error |-> "", table |-> r.table]
            ELSE [ok |-> FALSE, error |-> "DatabaseError", table |-> r.table]

\* steps 5 and 6 of handle_refresh_models: parse, return in dry_run mode, insert
refresh_after_response(options, content, table, fail_at, t) ==
    LET parsed == parse_suggestions(content) IN
    IF parsed = None
    THEN [ok |-> FALSE, error |-> "ApiError", table |-> table]
    ELSE IF options.dry_run THEN [ok |-> TRUE, error |-> "", table |-> table]
    ELSE LET r == insert_suggestions(table, Unwrap(parsed), 1, RefreshTarget(options),
                                     fail_at, t)
         IN IF r.ok THEN [ok |-> TRUE, error |-> "", table |-> r.table]
            ELSE [ok |-> FALSE, error |-> "DatabaseError", table |-> r.table]

\* the refresh has not returned yet
Refreshing == IsSome(reply) /\ Unwrap(reply).value = None

\* generate has returned: its error is returned, or the response is parsed and
\* the suggestions are written
RefreshFinish ==
    /\ Refreshing
    /\ pc = "done"
    /\ IF Unwrap(result).kind # "Ok"
       THEN /\ reply' = Some([Unwrap(reply) EXCEPT
                                 !.value = Some([ok |-> FALSE,
                                                 error |-> Unwrap(result).kind])])
            /\ provider_model_suggestions' = provider_model_suggestions
       ELSE \E content \in ResponseContents :
            \E fail_at \in 0..Len(content.suggestions) :
              LET r == refresh_after_response(Unwrap(reply).options, content,
                                              provider_model_suggestions, fail_at, now)
              IN /\ provider_model_suggestions' = r.table
                 /\ reply' = Some([Unwrap(reply) EXCEPT
                                      !.content = Some(content),
                                      !.value = Some([ok |-> r.ok, error |-> r.error])])
    /\ UNCHANGED <<routerVars, walkVars, provider_models, provider_health, provider_usage,
                   now, ticks, ops, provider_credentials, tokens_set>>

\* the suggestion tables a refresh may find: none, or the row of a model that
\* was suggested and adopted
RefreshSuggestions ==
    {{},
     {[provider |-> "google", workload |-> "chat", model |-> <<"gemini", "-1.5-pro">>,
       status |-> "adopted", updated_at |-> -20]}}

InitRefresh ==
    /\ LET setup == from_config({"google", "groq"}, TRUE, TRUE) IN
       /\ providers = setup.providers
       /\ fallback_order = setup.fallback_order
       /\ usage_logger = setup.usage_logger
       /\ catalog = setup.catalog
    /\ provider_models \in WalkRosters \ {{}}
    /\ provider_health = EmptyHealth
    /\ provider_usage = <<>>
    /\ provider_credentials = {}
    /\ provider_model_suggestions \in RefreshSuggestions
    /\ tokens_set = [p \in Provider |-> <<>>]
    /\ now = 0
    /\ ticks = 0
    /\ request = RefreshRequest
    /\ inflight = <<>>
    /\ pc = "idle"
    /\ candidates = <<>>
    /\ idx = 0
    /\ routed_model = <<>>
    /\ start = 0
    /\ invoked = <<>>
    /\ skipped = <<>>
    /\ warnings = <<>>
    /\ result = None
    /\ \E options \in RefreshOptions :
         reply = Some([op |-> "refresh_models", options |-> options,
                       content |-> None, value |-> None])
    /\ ops = 0

NextRefresh ==
    \/ BeginGenerate
    \/ HealthCheck
    \/ ResolveAndCall
    \/ AdapterReturn
    \/ RecordHealth
    \/ LogUsage
    \/ WalkTick
    \/ RefreshFinish

SpecRefresh == InitRefresh /\ [][NextRefresh]_vars

----------------------------------------------------------------------------
(* SpecFunctions: classify_error and calculate_backoff applied to their inputs *)

MessageWords ==
    {"429", "Rate Limit", "quota exceeded", "Billing", "Unauthorized", "403",
     "503", "Gateway", "timeout", "HTTP 500"}

ClassifyErrorOp(msg) ==
    /\ reply' = Some([op |-> "classify_error", msg |-> msg,
                      value |-> Some(classify_error(msg))])
    /\ UNCHANGED <<routerVars, walkVars, storeVars, provider_models, provider_health,
                   provider_usage, now, ticks, ops>>

CalculateBackoffOp(n) ==
    /\ reply' = Some([op |-> "calculate_backoff", n |-> n,
                      value |-> Some(calculate_backoff(n))])
    /\ UNCHANGED <<routerVars, walkVars, storeVars, provider_models, provider_health,
                   provider_usage, now, ticks, ops>>

InitFunctions == InitHealth

NextFunctions ==
    \/ \E msg \in SeqsUpTo(MessageWords, MaxMsgLen) : ClassifyErrorOp(msg)
    \/ \E n \in 1..MaxFailures : CalculateBackoffOp(n)

SpecFunctions == InitFunctions /\ [][NextFunctions]_vars

----------------------------------------------------------------------------
(* Properties of the health tracker *)

\* the reply of a direct call of method op that succeeded, if it is the last call
Replied(op, p) ==
    /\ IsSome(reply)
    /\ Unwrap(reply).op = op
    /\ Unwrap(reply).provider = p
    /\ IsSome(Unwrap(reply).value)

\* the last direct call was the call of op
Constructed(op) == IsSome(reply) /\ Unwrap(reply).op = op

\* the step is a call of the writing method op
CallOf(op) == ops' = ops + 1 /\ Unwrap(reply').op = op

\* C6: is_available(provider) answers true exactly when there is no record, or
\* the status is available, or retry_after is set and now is at or past it, or
\* the status is degraded with no retry_after; and so false for an unavailable
\* record without retry_after and for a non-available record whose retry_after
\* is still ahead.
C6_AvailabilityGate ==
    \A p \in Provider :
        Replied("is_available", p) =>
            LET row == provider_health[p]
                t   == Unwrap(reply).at
                expected ==
                    \/ row = None
                    \/ Unwrap(row).status = "available"
                    \/ (Unwrap(row).retry_after # None
                        /\ t >= Unwrap(Unwrap(row).retry_after))
                    \/ (Unwrap(row).status = "degraded"
                        /\ Unwrap(row).retry_after = None)
            IN Unwrap(Unwrap(reply).value) = expected

\* a degraded record without retry_after was probed and found available
C6_Witness ==
    /\ Replied("is_available", "groq")
    /\ provider_health["groq"] # None
    /\ Unwrap(provider_health["groq"]).status = "degraded"
    /\ Unwrap(provider_health["groq"]).retry_after = None
    /\ Unwrap(Unwrap(reply).value) = TRUE

\* C7: a failure classified RateLimit stores retry_after = now + min(2^min(cf,6), 60)
\* minutes, cf being the consecutive_failures the record holds after the failure.
C7_RateLimitBackoffExponential ==
    \A p \in Provider :
        (/\ Replied("record_failure", p)
         /\ classify_error(Unwrap(Unwrap(provider_health[p]).last_error)) = "RateLimit")
        =>
            LET row == Unwrap(provider_health[p])
                cf  == row.consecutive_failures
                minutes == Min(Pow2(Min(cf, 6)), 60)
            IN row.retry_after = Some(Unwrap(reply).at + 60 * minutes)

\* C8: with the record left by one rate-limit failure (consecutive_failures = 1),
\* retry_after is two minutes after the failure, and is_available is false at
\* every time before retry_after and true at every time from retry_after on.
C8_RateLimitRecord(p) ==
    /\ provider_health[p] # None
    /\ Unwrap(provider_health[p]).status = "degraded"
    /\ Unwrap(provider_health[p]).consecutive_failures = 1
    /\ Unwrap(provider_health[p]).last_error = Some(MsgRateLimit)

C8_HealthGateOverTime ==
    \A p \in Provider :
        C8_RateLimitRecord(p) =>
            LET row == Unwrap(provider_health[p])
                retry == Unwrap(row.last_error_at) + 2 * 60
            IN /\ row.retry_after = Some(retry)
               /\ is_available(provider_health, p, now) = (now >= retry)
               /\ (Replied("is_available", p) /\ Unwrap(reply).at = now
                      => Unwrap(Unwrap(reply).value) = (now >= retry))

\* the provider was probed exactly at retry_after and found available again
C8_Witness ==
    /\ C8_RateLimitRecord("groq")
    /\ Replied("is_available", "groq")
    /\ Unwrap(reply).at = Unwrap(Unwrap(provider_health["groq"]).retry_after)
    /\ Unwrap(Unwrap(reply).value) = TRUE

\* C19: after record_success(P) returned Ok, the record of P exists with
\* status available, consecutive_failures 0 and last_success_at the time of the
\* call, whatever the record was before.
C19_RecordSuccessPost ==
    \A p \in Provider :
        Replied("record_success", p) =>
            /\ provider_health[p] # None
            /\ Unwrap(provider_health[p]).status = "available"
            /\ Unwrap(provider_health[p]).consecutive_failures = 0
            /\ Unwrap(provider_health[p]).last_success_at = Some(Unwrap(reply).at)

\* a success was recorded on the record that a "payment required" failure left
C19_Witness ==
    /\ Replied("record_success", "groq")
    /\ provider_health["groq"] # None
    /\ Unwrap(provider_health["groq"]).last_error = Some(MsgPayment)
    /\ Unwrap(provider_health["groq"]).retry_after # None
    /\ Unwrap(provider_health["groq"]).status = "available"

\* C20: record_failure(P, msg) that returned Ok leaves a record of P whose
\* consecutive_failures is 1 if there was none and one more than before
\* otherwise, whose last_error is msg and last_error_at the time of the call,
\* and whose status and retry_after are those of msg's class counted from the
\* time of the call (24 h unavailable for credits and auth, 5 min degraded for
\* service, 30 s degraded for transient, a number of minutes up to 60 degraded
\* for rate limit), whatever retry_after was stored; no consecutive_failures is
\* negative.
C20_RecordFailurePost ==
    [][(CallOf("record_failure") /\ Unwrap(reply').value # None) =>
          LET p == Unwrap(reply').provider
              old == provider_health[p]
              new == Unwrap(provider_health'[p])
          IN /\ provider_health'[p] # None
             /\ new.consecutive_failures =
                   IF old = None THEN 1 ELSE Unwrap(old).consecutive_failures + 1
             /\ new.last_error_at = Some(now)
             /\ \E msg \in ErrorMessages :
                   /\ new.last_error = Some(msg)
                   /\ new.status =
                         IF classify_error(msg) \in {"OutOfCredits", "AuthFailure"}
                         THEN "unavailable" ELSE "degraded"
                   /\ CASE classify_error(msg) \in {"OutOfCredits", "AuthFailure"} ->
                              new.retry_after = Some(now + 24 * 3600)
                        [] classify_error(msg) = "ServiceUnavailable" ->
                              new.retry_after = Some(now + 5 * 60)
                        [] classify_error(msg) = "Transient" ->
                              new.retry_after = Some(now + 30)
                        [] classify_error(msg) = "RateLimit" ->
                              \E k \in 1..60 : new.retry_after = Some(now + 60 * k)
             /\ \A q \in Provider :
                   provider_health'[q] # None
                      => Unwrap(provider_health'[q]).consecutive_failures >= 0]_vars

\* a second failure, transient, was recorded later than the first: the record
\* counts two failures and its retry_after is 30 s after the second
C20_Witness ==
    /\ Replied("record_failure", "groq")
    /\ Unwrap(reply).at > 0
    /\ provider_health["groq"] # None
    /\ Unwrap(provider_health["groq"]).consecutive_failures = 2
    /\ Unwrap(provider_health["groq"]).last_error = Some(MsgTransient)
    /\ Unwrap(provider_health["groq"]).retry_after = Some(Unwrap(reply).at + 30)

\* C23: the class of the recorded message decides the status and the backoff
\* that record_failure stores: unavailable for 24 h on OutOfCredits and
\* AuthFailure, degraded for 5 min on ServiceUnavailable, degraded for 30 s on
\* Transient, each counted from the time of the call.
C23_ClassPolicy ==
    \A p \in Provider :
        Replied("record_failure", p) =>
            LET rec == Unwrap(provider_health[p])
                class == classify_error(Unwrap(rec.last_error))
                at == Unwrap(reply).at
            IN /\ class \in {"OutOfCredits", "AuthFailure"} =>
                     rec.status = "unavailable" /\ rec.retry_after = Some(at + 24 * 3600)
               /\ class = "ServiceUnavailable" =>
                     rec.status = "degraded" /\ rec.retry_after = Some(at + 5 * 60)
               /\ class = "Transient" =>
                     rec.status = "degraded" /\ rec.retry_after = Some(at + 30)

\* an auth failure recorded as the second failure in a row of a provider: the
\* record is unavailable for 24 h from that call
C23_Witness ==
    /\ Replied("record_failure", "google")
    /\ Unwrap(provider_health["google"]).consecutive_failures = 2
    /\ Unwrap(provider_health["google"]).last_error = Some(MsgAuth)
    /\ classify_error(MsgAuth) = "AuthFailure"
    /\ Unwrap(provider_health["google"]).status = "unavailable"
    /\ Unwrap(provider_health["google"]).retry_after = Some(Unwrap(reply).at + 24 * 3600)

\* C30: record_success(P) that returned Ok leaves last_error, last_error_at
\* and retry_after of P's record as they were (absent if P had no record), and
\* leaves the record of every other provider as it was.
C30_RecordSuccessFrame ==
    [][(CallOf("record_success") /\ Unwrap(reply').value # None) =>
          LET p == Unwrap(reply').provider
              old == provider_health[p]
              new == Unwrap(provider_health'[p])
          IN /\ provider_health'[p] # None
             /\ new.last_error = (IF old = None THEN None ELSE Unwrap(old).last_error)
             /\ new.last_error_at = (IF old = None THEN None ELSE Unwrap(old).last_error_at)
             /\ new.retry_after = (IF old = None THEN None ELSE Unwrap(old).retry_after)
             /\ \A q \in Provider \ {p} : provider_health'[q] = provider_health[q]]_vars

\* a success recorded for Google after a rate-limit failure: the record is
\* available again and still carries the failure's message, time and retry_after
C30_Witness ==
    /\ Replied("record_success", "google")
    /\ provider_health["google"] # None
    /\ Unwrap(provider_health["google"]).status = "available"
    /\ Unwrap(provider_health["google"]).last_error = Some(MsgRateLimit)
    /\ Unwrap(provider_health["google"]).last_error_at # None
    /\ Unwrap(provider_health["google"]).last_error_at
          # Unwrap(provider_health["google"]).last_success_at
    /\ Unwrap(provider_health["google"]).retry_after # None

\* C35: after any sequence of record_success and record_failure, every health
\* record has status available exactly when its consecutive_failures is 0,
\* and every degraded or unavailable record has retry_after set.
C35_StatusMatchesCount ==
    \A p \in Provider :
        IsSome(provider_health[p]) =>
           LET row == Unwrap(provider_health[p])
           IN /\ (row.status = "available") <=> (row.consecutive_failures = 0)
              /\ row.status \in {"available", "degraded", "unavailable"}
              /\ row.status \in {"degraded", "unavailable"} => IsSome(row.retry_after)

\* record_failure has just been written a second time in a row for Google: its
\* record is not available, counts two failures and carries a retry_after
C35_Witness ==
    /\ Replied("record_failure", "google")
    /\ provider_health["google"] # None
    /\ Unwrap(provider_health["google"]).status \in {"degraded", "unavailable"}
    /\ Unwrap(provider_health["google"]).consecutive_failures = 2
    /\ Unwrap(provider_health["google"]).last_success_at = None
    /\ IsSome(Unwrap(provider_health["google"]).retry_after)

\* the concurrent calls that failed and whose record_failure was written
FailuresWritten ==
    {i \in Running : /\ inflight[i].recorded
                     /\ IsSome(inflight[i].outcome)
                     /\ ~Unwrap(inflight[i].outcome).ok}

\* C32: when the calls running concurrently on a provider all fail, the
\* provider's consecutive_failures is, at every moment and under every
\* interleaving, the number of record_failure statements that have run: each
\* statement adds exactly one, so k calls that all recorded their failure leave
\* the count k higher than the fresh table had it.
C32_ConcurrentFailuresCount ==
    (\A i \in Running : IsSome(inflight[i].outcome) => ~Unwrap(inflight[i].outcome).ok)
        => LET rec == provider_health[ConcurrentProvider] IN
           /\ (rec = None) <=> (FailuresWritten = {})
           /\ rec # None => Unwrap(rec).consecutive_failures = Cardinality(FailuresWritten)

\* two calls are in flight at once, neither has returned, both failed and both
\* have run their record_failure statement: the count is 2
C32_Witness ==
    /\ Len(inflight) = 2
    /\ \A i \in Running : At(i, "log") /\ inflight[i].recorded
    /\ \A i \in Running : ~Unwrap(inflight[i].outcome).ok
    /\ provider_usage = <<>>
    /\ provider_health[ConcurrentProvider] # None
    /\ Unwrap(provider_health[ConcurrentProvider]).consecutive_failures = 2

\* the message holds, in any letter case, one of the patterns
Mentions(msg, patterns) == \E i \in 1..Len(msg) : Lower(msg[i]) \in patterns

\* C22: the class of a message is that of the first row, in the order RateLimit,
\* OutOfCredits, AuthFailure, ServiceUnavailable, of which the lower-cased
\* message holds a pattern, and Transient when it holds none; so a message with
\* both "429" and "unauthorized" is RateLimit.
C22_ClassificationOrder ==
    Constructed("classify_error") =>
        LET msg == Unwrap(reply).msg
            class == Unwrap(Unwrap(reply).value)
        IN /\ class =
                 IF Mentions(msg, {"rate limit", "too many requests", "429"})
                 THEN "RateLimit"
                 ELSE IF Mentions(msg, {"insufficient credits", "quota exceeded",
                                        "out of credits", "billing",
                                        "payment required", "402"})
                 THEN "OutOfCredits"
                 ELSE IF Mentions(msg, {"unauthorized", "forbidden", "invalid api key",
                                        "invalid token", "authentication failed",
                                        "401", "403"})
                 THEN "AuthFailure"
                 ELSE IF Mentions(msg, {"service unavailable", "502", "503", "504",
                                        "gateway"})
                 THEN "ServiceUnavailable"
                 ELSE "Transient"
           /\ (Mentions(msg, {"429"}) /\ Mentions(msg, {"unauthorized"}))
                 => class = "RateLimit"

\* a message with "Unauthorized" before "429" was classified RateLimit
C22_Witness ==
    /\ Constructed("classify_error")
    /\ Unwrap(reply).msg = <<"Unauthorized", "429">>
    /\ Unwrap(reply).value = Some("RateLimit")

\* C24: calculate_backoff(n) is min(2^min(n,6), 60) for n >= 1: 2, 4, 8, 16, 32
\* for n = 1..5 and 60 from 6 on; it never exceeds 60 and is non-decreasing.
C24_BackoffTable ==
    Constructed("calculate_backoff") =>
        LET n == Unwrap(reply).n
            minutes == Unwrap(Unwrap(reply).value)
            capped(m) == IF 2^(IF m < 6 THEN m ELSE 6) < 60
                         THEN 2^(IF m < 6 THEN m ELSE 6) ELSE 60
        IN /\ minutes = capped(n)
           /\ minutes = CASE n = 1 -> 2 [] n = 2 -> 4 [] n = 3 -> 8
                           [] n = 4 -> 16 [] n = 5 -> 32 [] OTHER -> 60
           /\ minutes <= 60
           /\ \A m \in 1..n : capped(m) <= minutes

\* the backoff of the sixth failure in a row is the cap
C24_Witness ==
    /\ Constructed("calculate_backoff")
    /\ Unwrap(reply).n = 6
    /\ Unwrap(reply).value = Some(60)

----------------------------------------------------------------------------
(* Properties of the fallback walk *)

InvokedProviders == [i \in 1..Len(invoked) |-> invoked[i].provider]

\* the first position of x in seq
FirstPos(seq, x) ==
    CHOOSE i \in 1..Len(seq) : seq[i] = x /\ \A j \in 1..(i - 1) : seq[j] # x

CallFailed(i) == invoked[i].outcome # None /\ ~Unwrap(invoked[i].outcome).ok

CallSucceeded(i) == invoked[i].outcome # None /\ Unwrap(invoked[i].outcome).ok

Returned(kind) == pc = "done" /\ Unwrap(result).kind = kind

NoDuplicates(seq) == \A i, j \in 1..Len(seq) : seq[i] = seq[j] => i = j

\* the request names no provider preference: the candidates are the fallback order
NoPreference(req) ==
    /\ req.hints.provider = None
    /\ req.tags = <<>>
    /\ req.model = <<>>
    /\ req.hints.quality = None
    /\ req.hints.complexity = None
    /\ req.hints.speed = None

\* a HealthCheck step is taken
GateStep == pc = "check" /\ (pc' # pc \/ idx' # idx)

\* the walk leaves the current candidate for the next one, or ends exhausted
MovesOn ==
    IF idx < Len(candidates)
    THEN pc' = "check" /\ idx' = idx + 1 /\ result' = result
    ELSE pc' = "done" /\ result' = Some([kind |-> "NoProviderAvailable"])

\* C1: on a router whose fallback_order lists its adapters once, a request
\* without provider preference whose adapter calls all fail and that skips no
\* candidate ends with NoProviderAvailable, every registered adapter having been
\* invoked exactly once, in registration order.
C1_FallbackExhaustion ==
    (/\ pc = "done"
     /\ NoPreference(request)
     /\ Range(fallback_order) = providers
     /\ NoDuplicates(fallback_order)
     /\ skipped = <<>>
     /\ \A i \in 1..Len(invoked) : CallFailed(i))
    => /\ Unwrap(result).kind = "NoProviderAvailable"
       /\ InvokedProviders = fallback_order

\* C2: a response that generate returns is the one of the last adapter invoked,
\* which is the candidate the walk stands at; every adapter invoked before it
\* failed; every candidate before it was skipped by the gate, is unregistered or
\* was invoked and failed; the adapters were invoked in candidate order and none
\* of a later candidate was invoked.
C2_FirstSuccess ==
    Returned("Ok") =>
        LET n == Len(invoked) IN
        /\ n >= 1
        /\ CallSucceeded(n)
        /\ Unwrap(result).response = Unwrap(invoked[n].outcome).response
        /\ invoked[n].provider = candidates[idx]
        /\ \A i \in 1..(n - 1) : CallFailed(i)
        /\ \A j \in 1..(idx - 1) :
              \/ candidates[j] \in Range(skipped)
              \/ candidates[j] \notin providers
              \/ \E i \in 1..(n - 1) : invoked[i].provider = candidates[j]
        /\ InvokedProviders =
              Filter(SubSeq(candidates, 1, idx), Range(InvokedProviders))
        /\ \A j \in (idx + 1)..Len(candidates) :
              candidates[j] \notin Range(InvokedProviders)

\* a response was returned after an earlier adapter failed and with a later
\* candidate left untried
C2_Witness ==
    /\ Returned("Ok")
    /\ Len(invoked) >= 2
    /\ idx < Len(candidates)
    /\ candidates[idx + 1] \in providers

\* C3: generate returns a response or NoProviderAvailable, no other error.
C3_SoleTerminalError ==
    pc = "done" => Unwrap(result).kind \in {"Ok", "NoProviderAvailable"}

\* C4: whether or not the health write and the usage write of an attempt fail,
\* generate goes from the health write to the usage write, and after the usage
\* write it returns the adapter's response if the call succeeded and otherwise
\* moves on to the next candidate (NoProviderAvailable after the last one).
C4_BookkeepingSwallowed ==
    [][/\ (pc = "health" /\ pc' # pc) => (pc' = "log" /\ result' = result)
       /\ (pc = "log" /\ pc' # pc) =>
            IF CallSucceeded(Len(invoked))
            THEN /\ pc' = "done"
                 /\ result' = Some([kind |-> "Ok",
                                    response |-> Unwrap(LastCall.outcome).response])
            ELSE MovesOn]_vars

\* a response was returned although both writes of that attempt failed
C4_Witness ==
    /\ Returned("Ok")
    /\ [what |-> "Failed to record provider success", provider |-> Current]
          \in Range(warnings)
    /\ [what |-> "Failed to log provider usage", provider |-> Current]
          \in Range(warnings)

\* C5: when the health probe answers and the answer is false, the candidate is
\* skipped: no adapter is invoked, no health record and no usage row is written,
\* nothing is logged as a warning, and the walk moves on to the next candidate.
C5_HealthGateSkips ==
    [][(/\ GateStep
        /\ usage_logger
        /\ warnings' = warnings
        /\ ~is_available(provider_health, Current, now))
       => /\ skipped' = Append(skipped, Current)
          /\ invoked' = invoked
          /\ provider_health' = provider_health
          /\ provider_usage' = provider_usage
          /\ MovesOn]_vars

\* a candidate was skipped and a later candidate's adapter was invoked
C5_Witness ==
    /\ skipped # <<>>
    /\ invoked # <<>>
    /\ provider_usage = <<>>
    /\ \A i \in 1..Len(invoked) : invoked[i].provider \notin Range(skipped)

\* the record that RecordFailure(p, "payment required") leaves
C9_PaymentRecord(p) ==
    /\ provider_health[p] # None
    /\ Unwrap(provider_health[p]).status = "unavailable"
    /\ Unwrap(provider_health[p]).last_error =
          Some(AppError_to_string([kind |-> "ApiError", msg |-> MsgPayment]))

C9_FailedAt(p) == Unwrap(Unwrap(provider_health[p]).last_error_at)

\* C9 as claimed: with the record of a "payment required" failure at time t, a
\* walk that comes to P before t + 24 h skips P, and one that comes to P later
\* goes on to try P.
C9_BackoffGatingClaim ==
    [][(GateStep /\ usage_logger /\ Current \in providers /\ C9_PaymentRecord(Current))
       => IF now < C9_FailedAt(Current) + 24 * 3600
          THEN skipped' = Append(skipped, Current) /\ invoked' = invoked /\ MovesOn
          ELSE skipped' = skipped /\ pc' = "resolve"]_vars

\* C9 amended: before t + 24 h the walk skips P whenever the health probe
\* answers (when the probe itself fails P is tried); from t + 24 h on it tries P.
C9_BackoffGating ==
    [][(GateStep /\ usage_logger /\ Current \in providers /\ C9_PaymentRecord(Current))
       => IF now < C9_FailedAt(Current) + 24 * 3600
          THEN IF warnings' = warnings
               THEN skipped' = Append(skipped, Current) /\ invoked' = invoked /\ MovesOn
               ELSE skipped' = skipped /\ pc' = "resolve"
          ELSE skipped' = skipped /\ pc' = "resolve"]_vars

\* 24 h after the failure the walk has passed the gate and is about to call P
C9_Witness ==
    /\ pc = "resolve"
    /\ warnings = <<>>
    /\ C9_PaymentRecord(Current)
    /\ now >= C9_FailedAt(Current) + 24 * 3600

\* the registered provider that hints.provider names by one of its aliases
C11_Hinted ==
    IF IsSome(request.hints.provider)
    THEN from_alias(Unwrap(request.hints.provider)) \cap providers
    ELSE None

\* C11 as claimed: the hinted registered provider is the first candidate and
\* the first adapter the walk invokes is its adapter; if that call succeeds,
\* generate returns its response.
C11_HintFirstTriedClaim ==
    (pc # "idle" /\ IsSome(C11_Hinted)) =>
        /\ candidates[1] = Unwrap(C11_Hinted)
        /\ (invoked # <<>> => invoked[1].provider = Unwrap(C11_Hinted))
        /\ (pc = "done" /\ invoked # <<>> /\ CallSucceeded(1))
              => /\ Unwrap(result).kind = "Ok"
                 /\ Unwrap(result).response.provider = Unwrap(C11_Hinted)

\* C11 amended: the hinted registered provider is the first candidate of the
\* walk, whatever its place in fallback_order; unless the health gate skips it,
\* no adapter is invoked before its own; and if its adapter is invoked and
\* succeeds, generate returns that response and invokes no other adapter.
C11_HintPrecedence ==
    (pc # "idle" /\ IsSome(C11_Hinted)) =>
        LET h == Unwrap(C11_Hinted) IN
        /\ candidates[1] = h
        /\ (invoked # <<>> /\ h \notin Range(skipped)) => invoked[1].provider = h
        /\ (pc = "done" /\ invoked # <<>> /\ invoked[1].provider = h /\ CallSucceeded(1))
              => /\ Unwrap(result).kind = "Ok"
                 /\ Unwrap(result).response = Unwrap(invoked[1].outcome).response
                 /\ Unwrap(result).response.provider = h
                 /\ Len(invoked) = 1

\* the hinted provider stands last in fallback_order, was tried first and served
\* the response
C11_Witness ==
    /\ IsSome(C11_Hinted)
    /\ fallback_order[Len(fallback_order)] = Unwrap(C11_Hinted)
    /\ fallback_order[1] # Unwrap(C11_Hinted)
    /\ Returned("Ok")
    /\ Len(invoked) = 1
    /\ Unwrap(result).response.provider = Unwrap(C11_Hinted)

\* C12: every adapter invocation of a request with an empty model carries the
\* model of a first row, by priority ascending then updated_at descending, among
\* the active rows of that provider (and of hints.workload when it is given), or
\* the empty model when there is no such row or no catalog; an invocation of a
\* request with a model carries that model, and such a request never ends with
\* the error of a catalog query.
C12_ModelAutoFill ==
    /\ \A i \in 1..Len(invoked) :
          LET p == invoked[i].provider
              rows == {r \in provider_models :
                          /\ r.status = "active"
                          /\ r.provider = p
                          /\ (request.hints.workload # None
                                 => r.workload = Unwrap(request.hints.workload))}
              first == {r \in rows :
                          \A o \in rows :
                             /\ o.priority >= r.priority
                             /\ (o.priority = r.priority => o.updated_at <= r.updated_at)}
          IN IF request.model # <<>> THEN invoked[i].model = request.model
             ELSE IF catalog /\ rows # {} THEN \E r \in first : invoked[i].model = r.model
             ELSE invoked[i].model = <<>>
    /\ (pc = "done" /\ request.model # <<>>) => Unwrap(result).kind # "DatabaseError"

\* a request without model reached Google's adapter with the newer of the two
\* chat models of priority 10, and Groq's adapter with an empty model, its only
\* row being retired
C12_Witness ==
    /\ request.model = <<>>
    /\ request.hints.workload = Some("chat")
    /\ catalog
    /\ \E i, j \in 1..Len(invoked) :
          /\ invoked[i].provider = "google"
          /\ invoked[i].model = <<"gemini", "-2.0-flash">>
          /\ invoked[j].provider = "groq"
          /\ invoked[j].model = <<>>

\* the number of warnings of the kinds given
Warned(kinds) == Cardinality({i \in 1..Len(warnings) : warnings[i].what \in kinds})

\* the health record of provider p is the one the outcome out leaves, written
\* no earlier than the adapter call started
RecordedFor(p, out) ==
    /\ provider_health[p] # None
    /\ LET rec == Unwrap(provider_health[p]) IN
       /\ rec.updated_at >= start
       /\ IF out.ok
          THEN rec.status = "available" /\ rec.consecutive_failures = 0
               /\ rec.last_success_at = Some(rec.updated_at)
          ELSE rec.last_error = Some(AppError_to_string(out.error))
               /\ rec.last_error_at = Some(rec.updated_at)

\* C26: within one request the steps of a candidate come in the order health
\* check, adapter call, health record, usage log: the adapter is called only
\* from the step after the candidate's health check, the health record is
\* written only once the adapter has returned and before the attempt's usage
\* row, the usage row only after the health record step, and the health check
\* of the next candidate starts only when every attempt so far has been through
\* its usage log.
C26_StepOrder ==
    [][/\ Len(invoked') > Len(invoked) =>
             /\ pc = "resolve" /\ pc' = "call"
             /\ invoked' = Append(invoked, invoked'[Len(invoked')])
             /\ invoked'[Len(invoked')].provider = Current
             /\ invoked'[Len(invoked')].outcome = None
             /\ provider_health' = provider_health /\ provider_usage' = provider_usage
       /\ provider_health' # provider_health =>
             /\ pc = "health" /\ pc' = "log"
             /\ LastCall.provider = Current /\ IsSome(LastCall.outcome)
             /\ \A q \in Provider \ {Current} : provider_health'[q] = provider_health[q]
             /\ provider_usage' = provider_usage
             /\ Len(provider_usage) + Warned({"Failed to log provider usage"})
                   = Len(invoked) - 1
       /\ provider_usage' # provider_usage =>
             /\ pc = "log" /\ pc' \in {"check", "done"}
             /\ Len(provider_usage') = Len(provider_usage) + 1
             /\ provider_usage'[Len(provider_usage')].provider = Current
             /\ provider_health' = provider_health
             /\ \/ \E i \in 1..Len(warnings) :
                      /\ warnings[i].provider = Current
                      /\ warnings[i].what \in {"Failed to record provider success",
                                                "Failed to record provider failure"}
                \/ RecordedFor(Current, Unwrap(LastCall.outcome))
       /\ pc = "check" =>
             /\ \A i \in 1..Len(invoked) :
                   IsSome(invoked[i].outcome) /\ ~Unwrap(invoked[i].outcome).ok
             /\ usage_logger =>
                   /\ Len(provider_usage) + Warned({"Failed to log provider usage"})
                         = Len(invoked)
                   /\ \A i \in 1..Len(invoked) :
                         \/ \E j \in 1..Len(warnings) :
                               /\ warnings[j].provider = invoked[i].provider
                               /\ warnings[j].what = "Failed to record provider failure"
                         \/ /\ provider_health[invoked[i].provider] # None
                            /\ Unwrap(provider_health[invoked[i].provider]).last_error
                                 = Some(AppError_to_string(Unwrap(invoked[i].outcome).error))
       /\ pc' = "check" => pc \in {"idle", "check", "log"}]_vars

\* the second candidate's health check is about to start: the first attempt
\* failed, its failure is in the health table and its usage row is written
C26_Witness ==
    /\ pc = "check"
    /\ idx = 2
    /\ Len(invoked) = 1
    /\ Len(provider_usage) = 1
    /\ provider_usage[1].provider = candidates[1]
    /\ provider_usage[1].success = 0
    /\ provider_health[candidates[1]] # None
    /\ Unwrap(provider_health[candidates[1]]).last_error_at = Some(now)
    /\ now > start

\* the attempts whose adapter call is over and whose usage log step is done
Logged == IF pc \in {"call", "health", "log"} THEN Len(invoked) - 1 ELSE Len(invoked)

\* C27: with a logger attached and every write succeeding, the usage table
\* holds exactly one row per adapter invocation that is through its usage log
\* step, in the order of the invocations, with the invocation's provider and
\* model and with success 1 exactly when the adapter returned a response; and
\* each invocation makes one health update, of its own provider: a failure adds
\* one to consecutive_failures, a success sets it to 0.
C27_OneRowPerAttempt ==
    /\ [](( /\ usage_logger
            /\ Warned({"Failed to log provider usage"}) = 0) =>
              /\ Len(provider_usage) = Logged
              /\ \A i \in 1..Logged :
                    LET out == Unwrap(invoked[i].outcome) IN
                    /\ provider_usage[i].provider = invoked[i].provider
                    /\ provider_usage[i].model = Some(invoked[i].model)
                    /\ provider_usage[i].success = (IF out.ok THEN 1 ELSE 0)
                    /\ provider_usage[i].error_message =
                          (IF out.ok THEN None ELSE Some(AppError_to_string(out.error))))
    /\ [][( /\ usage_logger
            /\ pc = "health"
            /\ Warned({"Failed to record provider success",
                        "Failed to record provider failure"})
                 = Cardinality({i \in 1..Len(warnings') : warnings'[i].what \in
                                  {"Failed to record provider success",
                                   "Failed to record provider failure"}})
            /\ pc' = "log") =>
              LET p == LastCall.provider
                  out == Unwrap(LastCall.outcome)
                  before == IF provider_health[p] = None THEN 0
                            ELSE Unwrap(provider_health[p]).consecutive_failures
              IN /\ provider_health'[p] # None
                 /\ Unwrap(provider_health'[p]).updated_at = now
                 /\ Unwrap(provider_health'[p]).consecutive_failures =
                       (IF out.ok THEN 0 ELSE before + 1)
                 /\ \A q \in Provider \ {p} : provider_health'[q] = provider_health[q]]_vars
    /\ [][provider_health' # provider_health => pc = "health"]_vars

\* Google failed and Groq answered: two usage rows, Google's with success 0 and
\* Groq's with success 1, one failure on Google's record and none on Groq's
C27_Witness ==
    /\ pc = "done"
    /\ usage_logger
    /\ Len(invoked) = 2
    /\ Len(provider_usage) = 2
    /\ provider_usage[1].provider = "google" /\ provider_usage[1].success = 0
    /\ provider_usage[2].provider = "groq" /\ provider_usage[2].success = 1
    /\ provider_health["google"] # None /\ provider_health["groq"] # None
    /\ Unwrap(provider_health["google"]).consecutive_failures = 1
    /\ Unwrap(provider_health["google"]).status # "available"
    /\ Unwrap(provider_health["groq"]).consecutive_failures = 0
    /\ Unwrap(provider_health["groq"]).status = "available"
    /\ result = Some([kind |-> "Ok",
                      response |-> [content |-> "content", provider |-> "groq"]])

\* C28: a candidate whose health probe returned an error is attempted all the
\* same: once generate has returned, every registered provider for which the
\* probe failed has had its adapter invoked and was not skipped.
C28_ProbeErrorProceeds ==
    pc = "done" =>
        \A i \in 1..Len(warnings) :
            (/\ warnings[i].what = "Failed to check provider health"
             /\ warnings[i].provider \in providers)
            => /\ warnings[i].provider \in Range(InvokedProviders)
               /\ warnings[i].provider \notin Range(skipped)

\* how far generate has come: the candidate's index, then the position within
\* the loop body
Progress ==
    IF pc = "done" THEN 6 * (Len(candidates) + 1)
    ELSE 6 * idx + (CASE pc = "idle" -> 0
                      [] pc = "check" -> 1
                      [] pc = "resolve" -> 2
                      [] pc = "call" -> 3
                      [] pc = "health" -> 4
                      [] pc = "log" -> 5)

\* C38: generate terminates, and within one request no provider's adapter is
\* invoked twice: the invoked providers are distinct registered providers, so
\* their number is at most the number of registered providers.  Termination:
\* until generate has returned a step of it is always possible, every step
\* moves it strictly forward through the duplicate-free candidate list, and
\* its progress is bounded by the length of that list.
C38_TerminatesOncePerProvider ==
    /\ [](/\ NoDuplicates(InvokedProviders)
          /\ NoDuplicates(candidates)
          /\ Range(InvokedProviders) \subseteq providers
          /\ Len(invoked) <= Cardinality(providers)
          /\ idx <= Len(candidates)
          /\ Progress <= 6 * (Len(candidates) + 1)
          /\ (pc # "done" => ENABLED WalkStep))
    /\ [][/\ (pc' # pc \/ idx' # idx \/ invoked' # invoked) => Progress' > Progress
          /\ pc = "done" => (pc' = "done" /\ invoked' = invoked)]_vars

\* the configured order names Google twice; the walk is over after Google's
\* adapter was invoked once and failed
C38_Witness ==
    /\ pc = "done"
    /\ fallback_order = <<"groq", "google", "google">>
    /\ InvokedProviders = <<"google">>
    /\ IsSome(invoked[1].outcome) /\ ~Unwrap(invoked[1].outcome).ok
    /\ result = Some([kind |-> "NoProviderAvailable"])

\* C39: only registered providers are attempted.  A provider that is named in
\* fallback_order, in a hint, in a tag or by the model but is not registered
\* gets no adapter call, no health write and no usage row, and when the walk
\* reaches it as a candidate it goes on to the next candidate (or, after the
\* last one, ends with NoProviderAvailable).
C39_OnlyRegistered ==
    /\ [](/\ Range(InvokedProviders) \subseteq providers
          /\ \A i \in 1..Len(provider_usage) : provider_usage[i].provider \in providers
          /\ provider_from_hints(request) \subseteq providers
          /\ provider_from_tags(request) \subseteq providers
          /\ provider_from_model(request) \subseteq providers)
    /\ [][/\ \A p \in Provider \ providers : provider_health'[p] = provider_health[p]
          /\ (pc = "check" /\ Current \notin providers) =>
                /\ invoked' = invoked
                /\ provider_usage' = provider_usage
                /\ provider_health' = provider_health
                /\ (pc' # pc \/ idx' # idx) =>
                      IF idx < Len(candidates)
                      THEN pc' = "check" /\ idx' = idx + 1 /\ result' = None
                      ELSE pc' = "done"
                           /\ result' = Some([kind |-> "NoProviderAvailable"])]_vars

\* only Google is registered and fallback_order starts with Groq; the walk
\* passed the candidate Groq without a call and Google answered
C39_Witness ==
    /\ pc = "done"
    /\ providers = {"google"}
    /\ fallback_order[1] = "groq"
    /\ candidates = <<"groq", "google">>
    /\ InvokedProviders = <<"google">>
    /\ IsSome(result) /\ Unwrap(result).kind = "Ok"

\* the calls of the generate call before this one that failed
FailedBefore ==
    IF IsSome(reply) /\ Unwrap(reply).op = "generate"
    THEN {Unwrap(reply).invoked[i].provider :
             i \in {j \in 1..Len(Unwrap(reply).invoked) :
                       /\ IsSome(Unwrap(reply).invoked[j].outcome)
                       /\ ~Unwrap(Unwrap(reply).invoked[j].outcome).ok}}
    ELSE {}

\* C40: the health gate exists exactly when a usage logger is attached.  A
\* router without one (from_map) probes no health, skips no candidate, writes
\* no health record and no usage row, and calls a provider that has just
\* failed again in every later request that reaches it; a router with a logger
\* has the gate: a candidate whose record says unavailable is skipped, unless
\* the probe itself fails.
C40_GateIffLogger ==
    /\ [](~usage_logger =>
            /\ skipped = <<>>
            /\ warnings \in Seq([what : {"Provider call failed; trying next candidate"},
                                  provider : Provider])
            /\ provider_usage = <<>>
            /\ (pc = "done" /\ result = Some([kind |-> "NoProviderAvailable"])) =>
                  /\ InvokedProviders = Filter(candidates, providers)
                  /\ FailedBefore \subseteq Range(InvokedProviders))
    /\ [][/\ ~usage_logger =>
                /\ provider_health' = provider_health
                /\ provider_usage' = provider_usage
                /\ (pc = "check" /\ Current \in providers /\ pc' # pc) =>
                      pc' = "resolve"
          /\ (/\ usage_logger
              /\ pc = "check"
              /\ pc' # pc \/ idx' # idx
              /\ ~is_available(provider_health, Current, now)) =>
                \/ skipped' = Append(skipped, Current) /\ invoked' = invoked
                \/ warnings' = Warn("Failed to check provider health", Current)]_vars

\* a router without logger: Google failed in the request before and its health
\* record, written by another process, says to wait; in this request Google
\* was called again and failed again, and the record is as it was
C40_Witness ==
    /\ ~usage_logger
    /\ pc = "done"
    /\ "google" \in FailedBefore
    /\ "google" \in Range(InvokedProviders)
    /\ result = Some([kind |-> "NoProviderAvailable"])
    /\ provider_health["google"] # None
    /\ ~is_available(provider_health, "google", now)
    /\ Unwrap(provider_health["google"]).consecutive_failures = 1
    /\ provider_usage = <<>>

\* C37: every adapter call gets the caller's request with only the model
\* resolved for that candidate: the caller's model when it names one, else the
\* first active model of the candidate's own roster for the request's
\* workload, else the empty model; a model resolved for an earlier candidate
\* is not carried to a later one, and the caller's request is never changed.
C37_ModelPerCandidate ==
    /\ [](\A i \in 1..Len(invoked) :
            LET own == active_models(invoked[i].provider, request.hints.workload)
            IN IF request.model # <<>> THEN invoked[i].model = request.model
               ELSE IF catalog /\ own # {}
               THEN \E r \in own : /\ r.model = invoked[i].model
                                    /\ \A o \in own : ~OrderedBefore(o, r)
               ELSE invoked[i].model = <<>>)
    /\ [][request' = request]_vars

\* the request names no model; Google was called with a model of its roster
\* and failed, then Groq, which has no active model, was called with the empty
\* model
C37_Witness ==
    /\ request.model = <<>>
    /\ Len(invoked) = 2
    /\ invoked[1].provider = "google"
    /\ invoked[1].model # <<>>
    /\ IsSome(invoked[1].outcome) /\ ~Unwrap(invoked[1].outcome).ok
    /\ invoked[2].provider = "groq"
    /\ invoked[2].model = <<>>
    /\ active_models("groq", request.hints.workload) = {}

\* C33: the walk is sequential: at most one adapter call of a request is in
\* flight, and only the latest; every earlier call has returned a failure, and
\* the adapter of the next candidate is invoked only from the walk's position
\* after the earlier attempt's health record and usage log steps (with the
\* tracker and logger attached, each earlier attempt has its usage row or the
\* warning that the write failed).
C33_SequentialWalk ==
    /\ [](/\ Cardinality({i \in 1..Len(invoked) : invoked[i].outcome = None}) <= 1
          /\ \A i \in 1..Len(invoked) :
                invoked[i].outcome = None => (i = Len(invoked) /\ pc = "call")
          /\ \A i \in 1..(Len(invoked) - 1) : CallFailed(i)
          /\ \A i, j \in 1..Len(invoked) :
                i < j => FirstPos(candidates, invoked[i].provider)
                           < FirstPos(candidates, invoked[j].provider))
    /\ [][Len(invoked') > Len(invoked) =>
             /\ Len(invoked') = Len(invoked) + 1
             /\ pc = "resolve"
             /\ \A i \in 1..Len(invoked) : CallFailed(i)
             /\ usage_logger =>
                   Len(provider_usage) + Warned({"Failed to log provider usage"})
                      = Len(invoked)]_vars

\* the adapter of the third candidate is running after the first two failed
\* one after the other
C33_Witness ==
    /\ pc = "call"
    /\ Len(invoked) = 3
    /\ idx = 3
    /\ CallFailed(1) /\ CallFailed(2)
    /\ invoked[3].outcome = None
    /\ InvokedProviders = <<"huggingface", "google", "groq">>

----------------------------------------------------------------------------
(* Properties of construction and of the credential store *)

\* C13: from_map fails, with ConfigError, exactly when the adapter map is empty;
\* when it succeeds the router holds the map, the fallback order as given, and
\* neither usage logger nor catalog.
C13_RouterRegistration ==
    Constructed("from_map") =>
        LET call == Unwrap(reply)
            r == Unwrap(call.value)
        IN /\ r.ok <=> call.provs # {}
           /\ ~r.ok => (r.error.kind = "ConfigError" /\ providers = {})
           /\ r.ok => /\ providers = call.provs
                       /\ fallback_order = call.order
                       /\ ~usage_logger
                       /\ ~catalog

\* from_map was called with an empty map and a fallback order that is not empty
C13_Witness ==
    /\ Constructed("from_map")
    /\ Unwrap(reply).provs = {}
    /\ Unwrap(reply).order # <<>>
    /\ ~Unwrap(Unwrap(reply).value).ok
    /\ Unwrap(Unwrap(reply).value).error.kind = "ConfigError"

\* provider p has a usable credential: a key in the configuration that is not
\* blank, or (Google having no stored credential) a stored token that is not blank
C14_Usable(cfg, p) ==
    \/ (IsSome(cfg[p]) /\ Trim(Unwrap(cfg[p])) # "")
    \/ /\ p # "google"
       /\ tokens_set[p] # <<>>
       /\ Trim(tokens_set[p][Len(tokens_set[p])]) # ""

\* C14: from_config fails exactly when no supported provider has a usable
\* credential, and the error it fails with is ConfigError.
C14_FromConfigErrors ==
    Constructed("from_config") =>
        LET call == Unwrap(reply)
            r == Unwrap(call.value)
        IN /\ ~r.ok <=> (\A p \in Range(ConfigOrder) : ~C14_Usable(call.config, p))
           /\ ~r.ok => r.error.kind = "ConfigError"

\* C15: the store holds one record for a provider whose token was set and not
\* removed since, and none for any other provider; get_token returns the token
\* of the provider's last set_token, and None for a provider never set or removed.
C15_CredentialRoundTrip ==
    \A p \in Provider :
        /\ Cardinality({r \in provider_credentials : r.provider = p})
              = IF tokens_set[p] # <<>> THEN 1 ELSE 0
        /\ Replied("get_token", p) =>
              Unwrap(Unwrap(reply).value)
                 = IF tokens_set[p] # <<>> THEN Some(tokens_set[p][Len(tokens_set[p])])
                   ELSE None

\* a token was set, then rotated to another one, and get_token returned the
\* second
C15_Witness ==
    /\ Replied("get_token", "groq")
    /\ Len(tokens_set["groq"]) = 2
    /\ tokens_set["groq"][1] # tokens_set["groq"][2]
    /\ Unwrap(Unwrap(reply).value) = Some(tokens_set["groq"][2])

\* C29: from_config registers a supported provider, and appends it to
\* fallback_order, exactly when the configuration has a key for it that is not
\* blank or the CredentialStore holds a token for it; the order is that of the
\* provider blocks.
C29_CredentialSource ==
    (Constructed("from_config") /\ Unwrap(Unwrap(reply).value).ok) =>
        /\ \A p \in Range(ConfigOrder) :
              p \in providers <=>
                 \/ IsSome(config_token(Unwrap(reply).config, p))
                 \/ tokens_set[p] # <<>>
        /\ fallback_order = Filter(ConfigOrder, providers)

----------------------------------------------------------------------------
(* Properties of the catalog *)

KeyOf(r) == <<r.provider, r.workload, r.model>>

\* C16: no state has the roster row of a key written as active by adopt_model
\* while a suggestion row of that key is still pending.
C16_AdoptAtomic ==
    (Constructed("adopt_model") /\ Unwrap(reply).inserted) =>
        ~\E sg \in provider_model_suggestions :
            KeyOf(sg) = Unwrap(reply).key /\ sg.status = "pending"

\* C17: when adopt_model(provider, workload, model, priority) returns Ok, the
\* roster holds exactly one row of that key, active and with that priority,
\* every suggestion row of that key is adopted, and the rows of other keys in
\* both tables are as they were.
C17_AdoptPostcondition ==
    [][(CallOf("adopt_model") /\ Unwrap(reply').value = Some(TRUE)) =>
          LET key == Unwrap(reply').key IN
          /\ Cardinality({r \in provider_models' : KeyOf(r) = key}) = 1
          /\ \A r \in provider_models' :
                KeyOf(r) = key =>
                   (r.status = "active" /\ r.priority = Unwrap(reply').priority)
          /\ \A sg \in provider_model_suggestions' :
                KeyOf(sg) = key => sg.status = "adopted"
          /\ {r \in provider_models' : KeyOf(r) # key}
                = {r \in provider_models : KeyOf(r) # key}
          /\ {sg \in provider_model_suggestions' : KeyOf(sg) # key}
                = {sg \in provider_model_suggestions : KeyOf(sg) # key}]_vars

\* a model of the roster was adopted with a new priority, its suggestion is
\* adopted, and the retired row of another key is still retired
C17_Witness ==
    /\ Constructed("adopt_model")
    /\ Unwrap(reply).value = Some(TRUE)
    /\ Unwrap(reply).key = <<"google", "chat", <<"gemini", "-1.5-pro">> >>
    /\ \E r \in provider_models :
          KeyOf(r) = Unwrap(reply).key /\ r.status = "active" /\ r.priority = 30
    /\ \E sg \in provider_model_suggestions :
          KeyOf(sg) = Unwrap(reply).key /\ sg.status = "adopted"
    /\ \E r \in provider_models : r.provider = "groq" /\ r.status = "retired"

\* C18: seed_defaults keeps every row of the roster as it is; a row it adds is
\* the active row of a default whose pair had no active model and whose key had
\* no row; and run right after a run that completed, it changes nothing.
C18_SeedingIdempotent ==
    [][CallOf("seed_defaults") =>
          /\ provider_models \subseteq provider_models'
          /\ \A r \in provider_models' \ provider_models :
                /\ \E i \in 1..Len(Defaults) :
                      /\ KeyOf(r) = KeyOf(Defaults[i])
                      /\ r.priority = Defaults[i].priority
                /\ r.status = "active"
                /\ ~\E o \in provider_models :
                      /\ o.provider = r.provider
                      /\ o.workload = r.workload
                      /\ (o.status = "active" \/ o.model = r.model)
          /\ (Constructed("seed_defaults") /\ Unwrap(reply).value = Some(TRUE))
                => provider_models' = provider_models]_vars

\* seed_defaults completed on a roster that an earlier run had seeded: the
\* earlier run's row is as it was written, Groq's default row is still retired,
\* and Google, which had active chat models, got no default row
C18_Witness ==
    /\ Constructed("seed_defaults")
    /\ Unwrap(reply).value = Some(TRUE)
    /\ \E r \in provider_models :
          /\ KeyOf(r) = KeyOf(Defaults[2])
          /\ r.priority = Defaults[2].priority
          /\ r.updated_at < Unwrap(reply).at
    /\ \E r \in provider_models : KeyOf(r) = KeyOf(Defaults[1]) /\ r.status = "retired"
    /\ \A r \in provider_models :
          KeyOf(r) = KeyOf(Defaults[3]) => r.priority # Defaults[3].priority

\* C21: retire_model(provider, workload, model) that returned Ok(b): b is true
\* exactly when the roster had a row of that key; that row is kept, with status
\* retired and the other fields but updated_at as they were; without such a row
\* the roster is as it was; afterwards the model is not among the active models
\* of the provider for that workload; rows of other keys are as they were.
C21_RetirePostcondition ==
    [][(CallOf("retire_model") /\ Unwrap(reply').value # None) =>
          LET key == Unwrap(reply').key
              had == {r \in provider_models : KeyOf(r) = key}
              has == {r \in provider_models' : KeyOf(r) = key}
          IN /\ Unwrap(Unwrap(reply').value) = (had # {})
             /\ had = {} => provider_models' = provider_models
             /\ Cardinality(has) = Cardinality(had)
             /\ \A r \in has :
                   /\ r.status = "retired"
                   /\ r.updated_at = now
                   /\ \E o \in had : r.priority = o.priority
             /\ ~\E r \in provider_models' :
                   /\ r.status = "active"
                   /\ r.provider = key[1]
                   /\ r.model = key[3]
                   /\ r.workload = key[2]
             /\ {r \in provider_models' : KeyOf(r) # key}
                   = {r \in provider_models : KeyOf(r) # key}
             /\ provider_model_suggestions' = provider_model_suggestions]_vars

\* an active model of Google was retired, Google's other chat models staying
\* active
C21_Witness ==
    /\ Constructed("retire_model")
    /\ Unwrap(reply).value = Some(TRUE)
    /\ Unwrap(reply).key = <<"google", "chat", <<"gemini", "-1.5-pro">> >>
    /\ \E r \in provider_models :
          KeyOf(r) = Unwrap(reply).key /\ r.status = "retired" /\ r.priority = 20
    /\ \E r \in provider_models :
          r.provider = "google" /\ r.workload = "chat" /\ r.status = "active"

\* the usage rows of provider p whose model has a roster row under (p, w) with
\* one of the statuses given
RowsUnder(p, w, statuses) ==
    {i \in 1..Len(provider_usage) :
        /\ provider_usage[i].provider = p
        /\ \E r \in provider_models :
              /\ r.provider = p /\ r.workload = w /\ r.status \in statuses
              /\ provider_usage[i].model = Some(r.model)}

\* C31 as stated: usage_stats(provider, Some(workload)) counts only the calls
\* whose model is active in the roster of (provider, workload), so calls with a
\* model retired since are left out.
C31_RetiredExcludedClaim ==
    (Constructed("usage_stats") /\ IsSome(Unwrap(reply).value)
        /\ IsSome(Unwrap(reply).workload)) =>
        Unwrap(Unwrap(reply).value).total_calls =
            Cardinality(RowsUnder(Unwrap(reply).provider,
                                  Unwrap(Unwrap(reply).workload), {"active"}))

\* C31: usage_stats(provider, Some(workload)) counts the calls of the provider
\* whose model has a roster row under (provider, workload), active or retired:
\* retiring a model keeps its row, so its calls are still counted; only calls
\* with a model that has no row under the pair are left out.
C31_RetiredStillCounted ==
    (Constructed("usage_stats") /\ IsSome(Unwrap(reply).value)
        /\ IsSome(Unwrap(reply).workload)) =>
        LET st == Unwrap(Unwrap(reply).value)
            rows == RowsUnder(Unwrap(reply).provider, Unwrap(Unwrap(reply).workload),
                              {"active", "retired"})
        IN /\ st.total_calls = Cardinality(rows)
           /\ st.successful_calls =
                 Cardinality({i \in rows : provider_usage[i].success = 1})

\* a call was logged with gemini-1.5-pro, the model was then retired from
\* (google, chat), and the chat statistics of Google still count the call
C31_Witness ==
    /\ Constructed("usage_stats")
    /\ Unwrap(reply).provider = "google"
    /\ Unwrap(reply).workload = Some("chat")
    /\ IsSome(Unwrap(reply).value)
    /\ Len(provider_usage) = 1
    /\ provider_usage[1].provider = "google"
    /\ provider_usage[1].model = Some(<<"gemini", "-1.5-pro">>)
    /\ \E r \in provider_models :
          /\ KeyOf(r) = <<"google", "chat", <<"gemini", "-1.5-pro">> >>
          /\ r.status = "retired" /\ r.updated_at = now
    /\ Unwrap(Unwrap(reply).value).total_calls = 1
    /\ Unwrap(Unwrap(reply).value).max_latency_ms = 300

----------------------------------------------------------------------------
(* Properties of the catalog refresh *)

\* the step in which the refresh returns
RefreshReturns == Refreshing /\ IsSome(Unwrap(reply').value)

\* the suggestion table holds a pending row written now for suggestion sg
\* under the target provider
PendingRow(table, target, sg, t) ==
    \E r \in table :
        /\ r.provider = target
        /\ r.workload = Lower(Unwrap(sg.workload))
        /\ r.model = Unwrap(sg.model)
        /\ r.status = "pending"
        /\ r.updated_at = t

\* the suggestion has both required fields and a workload the loop recognises
Recognised(sg) ==
    IsSome(sg.model) /\ IsSome(sg.workload) /\ Lower(Unwrap(sg.workload)) \in Workloads

\* C34 as stated: a dry-run refresh leaves the suggestion table and the roster
\* as they were; otherwise every well-formed suggestion of the response with a
\* recognised workload is upserted as pending under the target provider; text
\* that is not JSON gives ApiError and no suggestion written.
C34_RefreshClaim ==
    [][(RefreshReturns /\ IsSome(Unwrap(reply').content)) =>
          LET options == Unwrap(reply).options
              content == Unwrap(Unwrap(reply').content)
              value == Unwrap(Unwrap(reply').value)
          IN /\ provider_models' = provider_models
             /\ options.dry_run => provider_model_suggestions' = provider_model_suggestions
             /\ ~content.json =>
                   /\ ~value.ok /\ value.error = "ApiError"
                   /\ provider_model_suggestions' = provider_model_suggestions
             /\ (content.json /\ ~options.dry_run) =>
                   \A i \in 1..Len(content.suggestions) :
                       Recognised(content.suggestions[i]) =>
                          PendingRow(provider_model_suggestions', RefreshTarget(options),
                                     content.suggestions[i], now)]_vars

\* C34: a refresh never changes the roster, and changes the suggestion table
\* only in the step in which it returns.  In dry_run mode it writes nothing.  A
\* response that does not deserialize (text that is no JSON, or a suggestion
\* lacking model or workload) gives ApiError with nothing written, also for
\* the well-formed suggestions beside it.  Without dry_run, a refresh that
\* returns Ok has upserted every suggestion with a recognised workload as
\* pending under the target provider and changed no row of another key; one
\* that returns DatabaseError from an upsert has written only such rows.
C34_RefreshWrites ==
    [][/\ provider_models' = provider_models
       /\ ~RefreshReturns => provider_model_suggestions' = provider_model_suggestions
       /\ (RefreshReturns /\ IsSome(Unwrap(reply').content)) =>
          LET options == Unwrap(reply).options
              content == Unwrap(Unwrap(reply').content)
              value == Unwrap(Unwrap(reply').value)
              target == RefreshTarget(options)
              suggested == {<<target, Lower(Unwrap(content.suggestions[i].workload)),
                              Unwrap(content.suggestions[i].model)>> :
                               i \in {j \in 1..Len(content.suggestions) :
                                         Recognised(content.suggestions[j])}}
              written == {r \in provider_model_suggestions' :
                             r \notin provider_model_suggestions}
          IN /\ options.dry_run => provider_model_suggestions' = provider_model_suggestions
             /\ (~content.json \/ \E i \in 1..Len(content.suggestions) :
                                     \/ content.suggestions[i].model = None
                                     \/ content.suggestions[i].workload = None) =>
                   /\ ~value.ok /\ value.error = "ApiError"
                   /\ provider_model_suggestions' = provider_model_suggestions
             /\ (~options.dry_run /\ value.ok) =>
                   \A i \in 1..Len(content.suggestions) :
                       Recognised(content.suggestions[i]) =>
                          PendingRow(provider_model_suggestions', target,
                                     content.suggestions[i], now)
             /\ \A r \in written :
                   KeyOf(r) \in suggested /\ r.status = "pending" /\ r.updated_at = now
             /\ \A r \in provider_model_suggestions :
                   KeyOf(r) \notin suggested => r \in provider_model_suggestions'
             /\ ~value.ok => value.error \in {"ApiError", "DatabaseError"}]_vars

\* a refresh without dry_run and without --provider returned Ok on a response
\* of three suggestions: the two with a recognised workload are pending under
\* HuggingFace, the one for "vision" is not in the table
C34_Witness ==
    /\ IsSome(reply) /\ Unwrap(reply).op = "refresh_models"
    /\ ~Unwrap(reply).options.dry_run
    /\ Unwrap(reply).options.provider = None
    /\ Unwrap(reply).value = Some([ok |-> TRUE, error |-> ""])
    /\ Len(Unwrap(Unwrap(reply).content).suggestions) = 3
    /\ \E r \in provider_model_suggestions :
          KeyOf(r) = <<"huggingface", "chat", <<"gemini", "-1.5-pro">> >>
             /\ r.status = "pending"
    /\ \E r \in provider_model_suggestions :
          KeyOf(r) = <<"huggingface", "code", <<"gemini", "-2.5-flash">> >>
             /\ r.status = "pending"
    /\ ~\E r \in provider_model_suggestions : r.model = <<"gemini", "-2.5-pro">>

\* C36: a suggestion row that has status adopted never returns to pending, so
\* a model that is active in the roster has no pending suggestion after its
\* adoption.
C36_AdoptedStays ==
    [][\A r \in provider_model_suggestions :
          r.status = "adopted" =>
             /\ \A q \in provider_model_suggestions' :
                   KeyOf(q) = KeyOf(r) => q.status = "adopted"
             /\ \A m \in provider_models' :
                   (KeyOf(m) = KeyOf(r) /\ m.status = "active") =>
                      ~\E q \in provider_model_suggestions' :
                          KeyOf(q) = KeyOf(r) /\ q.status = "pending"]_vars

----------------------------------------------------------------------------
(* Properties of candidate selection *)

OptionSeq(opt) == IF IsSome(opt) THEN <<Unwrap(opt)>> ELSE <<>>

\* the five sources of candidates, in their order of priority
CandidateSources(req) ==
    OptionSeq(provider_from_hints(req)) \o OptionSeq(provider_from_tags(req))
    \o OptionSeq(provider_from_model(req)) \o hint_preferred_providers(req)
    \o fallback_order

\* C10: the candidate list has no duplicates, holds exactly the providers the
\* sources name, and orders them by the first source that names them: the hinted
\* provider, the first resolving tag's provider, the provider inferred from the
\* model, HuggingFace then Google as hint-preferred, then fallback_order in its
\* own order; so a tag's provider stands before the model's provider, wherever
\* the model's provider is not already placed by the hint, the first source.
C10_CandidateOrder ==
    pc # "idle" =>
        LET src == CandidateSources(request) IN
        /\ NoDuplicates(candidates)
        /\ Range(candidates) = Range(src)
        /\ \A i, j \in 1..Len(candidates) :
              i < j => FirstPos(src, candidates[i]) < FirstPos(src, candidates[j])
        /\ (/\ provider_from_hints(request) # provider_from_model(request)
            /\ IsSome(provider_from_tags(request))
            /\ IsSome(provider_from_model(request))
            /\ provider_from_tags(request) # provider_from_model(request))
           => FirstPos(candidates, Unwrap(provider_from_tags(request)))
                 < FirstPos(candidates, Unwrap(provider_from_model(request)))

\* a request tagged provider:google whose model contains "gpt": Google stands
\* before OpenAI, and the fallback order follows
C10_Witness ==
    /\ pc # "idle"
    /\ request.hints.provider = None
    /\ request.tags = << <<"provider:", "google">> >>
    /\ Contains(ToLowercase(request.model), "gpt")
    /\ Len(candidates) >= 3
    /\ candidates[1] = "google"
    /\ candidates[2] = "openai"

\* the model name holds the word, in any letter case
Names(model, word) == \E i \in 1..Len(model) : Lower(model[i]) = word

\* C25: for a request whose hint and tags name no registered provider, a model
\* naming "gemini" puts Google first and one naming "gpt" puts OpenAI first,
\* each only if that provider is registered; a model naming "llama" puts Groq
\* first only if it also names "groq"; otherwise, a "/" in the name or not, the
\* candidates are the hint-preferred providers and the fallback order alone.
C25_ModelHeuristic ==
    (/\ pc # "idle"
     /\ provider_from_hints(request) = None
     /\ provider_from_tags(request) = None) =>
        LET m == request.model
            plain == ExtendUnique(hint_preferred_providers(request), fallback_order)
            gemini == Names(m, "gemini") /\ "google" \in providers
            gpt == Names(m, "gpt") /\ "openai" \in providers
            llama == Names(m, "llama") /\ Names(m, "groq") /\ "groq" \in providers
        IN /\ gemini => candidates = ExtendUnique(<<"google">>, plain)
           /\ (gpt /\ ~gemini) => candidates = ExtendUnique(<<"openai">>, plain)
           /\ (llama /\ ~gemini /\ ~gpt) => candidates = ExtendUnique(<<"groq">>, plain)
           /\ (~gemini /\ ~gpt /\ ~llama) => candidates = plain
           /\ (Names(m, "llama") /\ ~Names(m, "groq") /\ ~gemini /\ ~gpt)
                 => candidates = plain
           /\ (Names(m, "/") /\ ~gemini /\ ~gpt /\ ~llama) => candidates = plain

\* the vendor-prefixed Llama name on a router that has Groq registered but
\* lists Google first: the candidates are the fallback order, Google first
C25_Witness ==
    /\ pc # "idle"
    /\ request.model = <<"meta-", "Llama", "/", "Llama", "-3.3-70B-Instruct-Turbo-Free">>
    /\ request.tags = <<>>
    /\ request.hints = NoHints
    /\ "groq" \in providers
    /\ fallback_order = <<"google", "groq">>
    /\ candidates = <<"google", "groq">>

====
